---- MODULE Spec2Model ----
(***************************************************************************)
(* Model of the prompt-to-site-configuration pipeline of                   *)
(* astro-template-LLM: the remote MCP call with its retry logic, the       *)
(* validators (schema, content, security), the sanitizer, the preview and  *)
(* webhook endpoints and the mcp-cli workflow.                             *)
(*                                                                         *)
(* Text is modelled as TLA+ strings, one character per position; the       *)
(* regular expressions of the source are operators that compute, for a     *)
(* position of a string, the length of the match that starts there.        *)
(***************************************************************************)
EXTENDS Integers, Sequences, FiniteSets, TLC

VARIABLES
    \* generateSiteConfigFromMCP and generateSiteConfig (src/lib/mcp-client.ts),
    \* one top-level call
    mcpPc,          \* "idle" | "fetching" | "done"
    mcpCall,        \* <<>> or <<the function called, options.maxFeatures, serverConfig.url>>
    mcpPrompt,      \* the prompt argument
    mcpInitRetries, \* serverConfig.retries as the caller passed it: <<>> or <<n>>
    mcpRetries,     \* serverConfig.retries of the current (recursive) call
    mcpRequests,    \* number of fetch() calls issued so far
    mcpResult,      \* <<>> while running, <<MCPResponse>> once returned
    \* POST /api/preview (src/pages/api/preview.ts), one request
    pvPc,           \* "idle" | "done"
    pvRequest,      \* <<>> or <<[prompt, isMcpEnabled, generated]>>
    pvResponse,     \* <<>> or <<[status, success, config, validationResult]>>
    \* scripts/mcp-cli.ts main(), one run
    cliPc,          \* "start" | "prompt" | "config" | "validate" | "pages" | "exit0" | "exit1"
    cliOptions,     \* <<>> or <<CLIOptions>> once parseArgs returned
    cliSiteConfig,  \* siteConfig: <<>> (null) or <<config>>
    cliEffects,     \* the files written so far: [effect, config] of each write
    \* webhook endpoints (src/pages/api/webhook/llm.ts, src/pages/api/mcp-webhook.ts)
    whPc,           \* "idle" | "done"
    whRequest,      \* the request being handled
    whResponse,     \* <<>> or <<the Response, with what the handler did to build it>>
    \* sanitizeSiteConfig (src/lib/sanitization.ts): a call and a second call on
    \* the first call's output
    sanPc,          \* "ready" | "once" | "twice"
    sanInput,       \* the caller's configuration, as it was before the call
    sanHeap,        \* the object graphs allocated so far; graph 1 is the caller's
    sanOptions,     \* SanitizationOptions
    sanFirst,       \* <<>> or <<outcome of sanitizeSiteConfig(sanInput)>>
    sanSecond,      \* <<>> or <<outcome of sanitizeSiteConfig(first.sanitized)>>
    \* the schema check and the security check on one candidate configuration
    valDefects,     \* the schema violations built into the candidate
    valPlants,      \* the sensitive texts planted in the candidate
    valArtifact,    \* the candidate
    valSchema,      \* <<>> or <<result of validateArtifact(candidate)>>
    valSecurity,    \* <<>> or <<result of validateSecurityConstraints(candidate)>>
    \* one call of a pure function of the pipeline on one input
    fnCall,         \* <<>> or <<[fn, the arguments]>>
    fnResult,       \* <<>> or <<what the call returned, or that it threw>>
    \* calls of the local generateSiteConfig (src/lib/mcp-client.ts) in one process
    synClock,       \* what Date reads: it advances with every step
    synCalls,       \* the calls made so far, each running up to its await or returned
    \* verifyTurnstile (src/lib/turnstile.ts): concurrent requests on one KV store
    tsStore,        \* EDGE_STORE: the replay keys present, and the failure counter of the one IP
    tsRedeemed,     \* the tokens the siteverify service has already answered for
    tsReqs,         \* the requests: token, position in verifyTurnstile, locals, result
    \* fetchWithRetry (src/lib/mcp-client.ts, lines 994-1034)
    fwrOpts,        \* the opts of the call: retries and backoffMs, each supplied or not
    fwrPc,          \* where the call stands: "idle", "fetching", "backoff", "returned", "thrown"
    fwrAttempt,     \* attempt, the loop counter
    fwrTimers,      \* the timeout timer of each attempt begun: "armed", "fired" or "cleared"
    fwrLastErr,     \* lastErr
    fwrOutcomes,    \* how each attempt's fetchImpl call ended, in order
    fwrWaited,      \* the backoff delays waited through, in order
    fwrResult       \* what the call returned or threw

mcpVars == <<mcpPc, mcpCall, mcpPrompt, mcpInitRetries, mcpRetries, mcpRequests, mcpResult>>
pvVars  == <<pvPc, pvRequest, pvResponse>>
cliVars == <<cliPc, cliOptions, cliSiteConfig, cliEffects>>
whVars  == <<whPc, whRequest, whResponse>>
sanVars == <<sanPc, sanInput, sanHeap, sanOptions, sanFirst, sanSecond>>
valVars == <<valDefects, valPlants, valArtifact, valSchema, valSecurity>>
fnVars == <<fnCall, fnResult>>
synVars == <<synClock, synCalls>>
tsVars == <<tsStore, tsRedeemed, tsReqs>>
fwrVars == <<fwrOpts, fwrPc, fwrAttempt, fwrTimers, fwrLastErr, fwrOutcomes, fwrWaited, fwrResult>>
vars    == <<mcpVars, pvVars, cliVars, whVars, sanVars, valVars, fnVars, synVars, tsVars, fwrVars>>

-----------------------------------------------------------------------------
(* Strings *)

\* s.charAt(i-1): "" outside the string
At(s, i) == IF i >= 1 /\ i <= Len(s) THEN SubSeq(s, i, i) ELSE ""

\* s.startsWith(p, i-1)
StartsWithAt(s, i, p) ==
    /\ i >= 1
    /\ i + Len(p) - 1 <= Len(s)
    /\ SubSeq(s, i, i + Len(p) - 1) = p

\* s.startsWith(p)
StartsWith(s, p) == StartsWithAt(s, 1, p)

\* s.includes(p)
Includes(s, p) == \E i \in 1..(Len(s) - Len(p) + 1) : StartsWithAt(s, i, p)

\* s.substring(0, n)
Substring0(s, n) == IF n >= Len(s) THEN s ELSE SubSeq(s, 1, n)

\* s.substring(n)
SubstringFrom(s, n) == IF n >= Len(s) THEN "" ELSE SubSeq(s, n + 1, Len(s))

UpperLetters == "ABCDEFGHIJKLMNOPQRSTUVWXYZ"
LowerLetters == "abcdefghijklmnopqrstuvwxyz"
Digits       == "0123456789"

\* position of the one-character string c in alphabet, 0 when absent
IndexIn(alphabet, c) ==
    IF \E i \in 1..Len(alphabet) : At(alphabet, i) = c
    THEN CHOOSE i \in 1..Len(alphabet) : At(alphabet, i) = c
    ELSE 0

LowerChar(c) ==
    LET i == IndexIn(UpperLetters, c) IN IF i = 0 THEN c ELSE At(LowerLetters, i)

\* s.toLowerCase(), also the effect of the i flag of a regular expression
RECURSIVE ToLowerCase(_)
ToLowerCase(s) ==
    IF Len(s) <= 1 THEN LowerChar(s)
    ELSE LET h == Len(s) \div 2
         IN  ToLowerCase(SubSeq(s, 1, h)) \o ToLowerCase(SubSeq(s, h + 1, Len(s)))

\* \s of a regular expression, and what trim() removes
IsSpace(c) == c \in {" ", "\t", "\n", "\r"}

\* \w of a regular expression
IsWord(c) ==
    \/ IndexIn(UpperLetters, c) # 0
    \/ IndexIn(LowerLetters, c) # 0
    \/ IndexIn(Digits, c) # 0
    \/ c = "_"

\* [a-f0-9] under the i flag
IsHex(c) == IndexIn(Digits, c) # 0 \/ IndexIn("abcdef", LowerChar(c)) # 0

\* . of a regular expression without the s flag: any character but a line end
IsDot(c) == c \notin {"\n", "\r"}

\* the number of characters from position i on that are all in class P
RunLength(s, i, P(_)) ==
    LET end == CHOOSE k \in i..(Len(s) + 1) :
                   /\ k = Len(s) + 1 \/ ~P(At(s, k))
                   /\ \A j \in i..(k - 1) : P(At(s, j))
    IN  IF i > Len(s) THEN 0 ELSE end - i

\* the number of characters at the end of s that are all in class P
BackRunLength(s, P(_)) ==
    CHOOSE k \in 0..Len(s) :
        /\ k = Len(s) \/ ~P(At(s, Len(s) - k))
        /\ \A j \in (Len(s) - k + 1)..Len(s) : P(At(s, j))

TrimStart(s) == SubstringFrom(s, RunLength(s, 1, IsSpace))
TrimEnd(s) == Substring0(s, Len(s) - BackRunLength(s, IsSpace))

\* s.trim()
Trim(s) == TrimEnd(TrimStart(s))

\* s.replace(/\s+/g, " ") between positions a and b: a character that is not
\* white space stays, the first of a run of white space becomes one space and
\* the others of the run go
RECURSIVE CollapseRange(_, _, _)
CollapseRange(s, a, b) ==
    IF a > b THEN ""
    ELSE IF a = b
    THEN (IF ~IsSpace(At(s, a)) THEN At(s, a)
          ELSE IF IsSpace(At(s, a - 1)) THEN "" ELSE " ")
    ELSE LET m == (a + b) \div 2
         IN  CollapseRange(s, a, m) \o CollapseRange(s, m + 1, b)

CollapseSpaces(s) == CollapseRange(s, 1, Len(s))

\* the least element of a set of numbers
Min(S) == CHOOSE x \in S : \A y \in S : x <= y

\* c repeated n times: "c".repeat(n)
RECURSIVE Repeat(_, _)
Repeat(c, n) ==
    IF n <= 0 THEN ""
    ELSE IF n = 1 THEN c
    ELSE LET h == Repeat(c, n \div 2)
         IN  h \o h \o (IF n % 2 = 1 THEN c ELSE "")

\* The optional value of a property: <<>> when the key is absent, <<v>> otherwise
None == <<>>
Some(v) == <<v>>
IsSome(o) == o # <<>>
Get(o) == o[1]

\* the element of a one-element set: The({e(v) : v \in {x}}) is e(x), with x
\* computed once, as a const declaration is
The(S) == CHOOSE x \in S : TRUE

-----------------------------------------------------------------------------
(* Site configurations (src/types/site-config.ts) *)

\* A configuration is a record
\*   [name, description,
\*    pages: [home: [hero: [title, subtitle, cta: opt [primary: opt [text, href],
\*                                                      secondary: opt [text, href]]],
\*                   features: seq [icon: opt, title, description]],
\*            about: opt [hero: opt [title, subtitle], blurb: opt],
\*            contact: opt [hero: opt [title, subtitle], emailPlaceholder: opt],
\*            services: opt [hero: opt [title, subtitle],
\*                           services: opt seq [title, description, features: opt seq]]],
\*    images: opt seq [url, alt]]
\* with every optional property held as None or Some(value).

Feature(icon, title, description) ==
    [icon |-> icon, title |-> title, description |-> description]

CTA(text, href) == [text |-> text, href |-> href]

Hero(title, subtitle) == [title |-> title, subtitle |-> subtitle]

Service(title, description, features) ==
    [title |-> title, description |-> description, features |-> features]

BaseFeatures ==
    << Feature(Some("*"), "Expert Team", "Experienced professionals for every project."),
       Feature(None, "Reliable Support", "Ongoing support and maintenance.") >>

BaseConfig ==
    [ name |-> "Creative Studio",
      description |-> "Professional design studio",
      pages |->
        [ home |->
            [ hero |-> [ title |-> "Welcome to Creative Studio",
                         subtitle |-> "We build brands.",
                         cta |-> None ],
              features |-> BaseFeatures ],
          about |-> None,
          contact |-> None,
          services |-> None ],
      images |-> None ]

WithName(c, s) == [c EXCEPT !.name = s]
WithDescription(c, s) == [c EXCEPT !.description = s]
WithHeroTitle(c, s) == [c EXCEPT !.pages.home.hero.title = s]
WithHeroSubtitle(c, s) == [c EXCEPT !.pages.home.hero.subtitle = s]
WithFeatures(c, fs) == [c EXCEPT !.pages.home.features = fs]
WithCta(c, primary, secondary) ==
    [c EXCEPT !.pages.home.hero.cta = Some([primary |-> primary, secondary |-> secondary])]
WithAbout(c, hero, blurb) ==
    [c EXCEPT !.pages.about = Some([hero |-> hero, blurb |-> blurb])]
WithContact(c, hero, emailPlaceholder) ==
    [c EXCEPT !.pages.contact = Some([hero |-> hero, emailPlaceholder |-> emailPlaceholder])]
WithServices(c, hero, services) ==
    [c EXCEPT !.pages.services = Some([hero |-> hero, services |-> services])]

-----------------------------------------------------------------------------
(* new URL(url): the part of the WHATWG parser the pipeline's inputs exercise *)

IsSchemeChar(c) ==
    \/ IndexIn(UpperLetters, c) # 0
    \/ IndexIn(LowerLetters, c) # 0
    \/ IndexIn(Digits, c) # 0
    \/ c \in {"+", "-", "."}

IsSlash(c) == c \in {"/", "\\"}
IsHostChar(c) == c \notin {"/", "\\", "?", "#", ":"}

\* [ok |-> FALSE] when new URL(url) throws a TypeError, else the hostname
ParseURL(url) ==
    LET u      == Trim(url)
        n      == RunLength(u, 1, IsSchemeChar)
        scheme == ToLowerCase(Substring0(u, n))
        rest   == n + 2      \* first position after the ":"
    IN  IF n = 0 \/ IndexIn(Digits \o "+-.", At(u, 1)) # 0 \/ At(u, n + 1) # ":"
        THEN [ok |-> FALSE, hostname |-> ""]
        ELSE IF scheme \in {"http", "https"}
        THEN LET from == rest + RunLength(u, rest, IsSlash)
                 h    == RunLength(u, from, IsHostChar)
             IN  IF h = 0
                 THEN [ok |-> FALSE, hostname |-> ""]
                 ELSE [ok |-> TRUE, hostname |-> ToLowerCase(SubSeq(u, from, from + h - 1))]
        ELSE IF StartsWithAt(u, rest, "//")
        THEN LET h == RunLength(u, rest + 2, IsHostChar)
             IN  [ok |-> TRUE, hostname |-> SubSeq(u, rest + 2, rest + 1 + h)]
        ELSE [ok |-> TRUE, hostname |-> ""]


-----------------------------------------------------------------------------
(* Schema check: SiteConfigSchema and validateArtifact (src/lib/mcp-client.ts) *)

\* z.string().min(min).max(max) at a path: at most one issue
StringIssues(path, s, min, max) ==
    IF Len(s) < min THEN << [path |-> path, code |-> "too_small"] >>
    ELSE IF Len(s) > max THEN << [path |-> path, code |-> "too_big"] >>
    ELSE << >>

\* z.string().min(min) at a path
StringMinIssues(path, s, min) ==
    IF Len(s) < min THEN << [path |-> path, code |-> "too_small"] >> ELSE << >>

\* schema.optional(): nothing to report for an absent property
OptionalIssues(o, Issues(_)) == IF IsSome(o) THEN Issues(Get(o)) ELSE << >>

\* the issues of every element of an array, in index order (paths are 0-based)
ElementIssues(seq, Issues(_, _)) ==
    LET upTo[i \in 0..Len(seq)] ==
            IF i = 0 THEN << >> ELSE upTo[i - 1] \o Issues(ToString(i - 1), seq[i])
    IN  upTo[Len(seq)]

\* an array schema without .min() and .max()
NoArraySizeIssues(path, seq, min, max) == << >>

\* z.array(...).min(min).max(max) at a path
ArraySizeIssues(path, seq, min, max) ==
    IF Len(seq) < min THEN << [path |-> path, code |-> "too_small"] >>
    ELSE IF Len(seq) > max THEN << [path |-> path, code |-> "too_big"] >>
    ELSE << >>

CtaIssues(path, c) ==
    StringIssues(path \o ".text", c.text, 1, 50) \o
    StringMinIssues(path \o ".href", c.href, 1)

PageHeroIssues(path, h) ==
    StringIssues(path \o ".title", h.title, 1, 60) \o
    StringIssues(path \o ".subtitle", h.subtitle, 1, 300)

HomeHeroIssues(path, h) ==
    PageHeroIssues(path, h) \o
    OptionalIssues(h.cta, LAMBDA cta :
        OptionalIssues(cta.primary, LAMBDA c : CtaIssues(path \o ".cta.primary", c)) \o
        OptionalIssues(cta.secondary, LAMBDA c : CtaIssues(path \o ".cta.secondary", c)))

FeatureIssues(path, f) ==
    OptionalIssues(f.icon, LAMBDA icon : StringIssues(path \o ".icon", icon, 0, 10)) \o
    StringIssues(path \o ".title", f.title, 1, 50) \o
    StringIssues(path \o ".description", f.description, 1, 120)

ServiceIssues(path, sv) ==
    StringIssues(path \o ".title", sv.title, 1, 50) \o
    StringIssues(path \o ".description", sv.description, 1, 200) \o
    OptionalIssues(sv.features, LAMBDA fs :
        ElementIssues(fs, LAMBDA i, f :
            StringIssues(path \o ".features." \o i, f, 0, 100)))

ImageIssues(path, img) ==
    (IF ParseURL(img.url).ok THEN << >>
     ELSE << [path |-> path \o ".url", code |-> "invalid_string"] >>) \o
    StringMinIssues(path \o ".alt", img.alt, 1)

\* SiteConfigSchema.safeParse(c).error.errors, empty when the parse succeeds
SiteConfigSchema(c) ==
    StringIssues("name", c.name, 1, 100) \o
    StringIssues("description", c.description, 1, 200) \o
    HomeHeroIssues("pages.home.hero", c.pages.home.hero) \o
    ArraySizeIssues("pages.home.features", c.pages.home.features, 1, 6) \o
    ElementIssues(c.pages.home.features, LAMBDA i, f :
        FeatureIssues("pages.home.features." \o i, f)) \o
    OptionalIssues(c.pages.about, LAMBDA a :
        OptionalIssues(a.hero, LAMBDA h : PageHeroIssues("pages.about.hero", h)) \o
        OptionalIssues(a.blurb, LAMBDA b : StringIssues("pages.about.blurb", b, 1, 500))) \o
    OptionalIssues(c.pages.contact, LAMBDA ct :
        OptionalIssues(ct.hero, LAMBDA h : PageHeroIssues("pages.contact.hero", h)) \o
        OptionalIssues(ct.emailPlaceholder, LAMBDA e :
            StringIssues("pages.contact.emailPlaceholder", e, 1, 100))) \o
    OptionalIssues(c.pages.services, LAMBDA sp :
        OptionalIssues(sp.hero, LAMBDA h : PageHeroIssues("pages.services.hero", h)) \o
        OptionalIssues(sp.services, LAMBDA svs :
            ElementIssues(svs, LAMBDA i, sv :
                ServiceIssues("pages.services.services." \o i, sv)))) \o
    OptionalIssues(c.images, LAMBDA imgs :
        ElementIssues(imgs, LAMBDA i, img : ImageIssues("images." \o i, img)))

\* a check that stops at the first issue
validateArtifactFirstOnly(artifact) ==
    LET issues == SiteConfigSchema(artifact)
    IN  [valid |-> issues = << >>,
         errors |-> IF issues = << >> THEN << >> ELSE << issues[1] >>]

\* validateArtifact(artifact) without a schemaPath
validateArtifact(artifact) ==
    LET issues == SiteConfigSchema(artifact)
    IN  [valid |-> issues = << >>, errors |-> issues]


-----------------------------------------------------------------------------
(* JSON.stringify(config) *)

JEscapeChar(c) ==
    CASE c = "\"" -> "\\\""
      [] c = "\\" -> "\\\\"
      [] c = "\n" -> "\\n"
      [] c = "\r" -> "\\r"
      [] c = "\t" -> "\\t"
      [] OTHER    -> c

RECURSIVE JEscape(_)
JEscape(s) ==
    IF Len(s) <= 1 THEN JEscapeChar(s)
    ELSE LET h == Len(s) \div 2
         IN  JEscape(SubSeq(s, 1, h)) \o JEscape(SubSeq(s, h + 1, Len(s)))

JString(s) == "\"" \o JEscape(s) \o "\""

\* the texts of seq joined by commas
JJoin(seq) ==
    LET upTo[i \in 0..Len(seq)] ==
            IF i = 0 THEN ""
            ELSE IF i = 1 THEN seq[1]
            ELSE upTo[i - 1] \o "," \o seq[i]
    IN  upTo[Len(seq)]

JObject(members) == "{" \o JJoin(members) \o "}"
JArray(seq, Text(_)) == "[" \o JJoin([i \in 1..Len(seq) |-> Text(seq[i])]) \o "]"
JMember(key, text) == << JString(key) \o ":" \o text >>
\* a property that is undefined is left out by JSON.stringify
JOptional(key, o, Text(_)) == IF IsSome(o) THEN JMember(key, Text(Get(o))) ELSE << >>

JCta(c) == JObject(JMember("text", JString(c.text)) \o JMember("href", JString(c.href)))

JPageHero(h) ==
    JObject(JMember("title", JString(h.title)) \o JMember("subtitle", JString(h.subtitle)))

JHomeHero(h) ==
    JObject(JMember("title", JString(h.title)) \o
            JMember("subtitle", JString(h.subtitle)) \o
            JOptional("cta", h.cta, LAMBDA cta :
                JObject(JOptional("primary", cta.primary, JCta) \o
                        JOptional("secondary", cta.secondary, JCta))))

JFeature(f) ==
    JObject(JOptional("icon", f.icon, JString) \o
            JMember("title", JString(f.title)) \o
            JMember("description", JString(f.description)))

JService(sv) ==
    JObject(JMember("title", JString(sv.title)) \o
            JMember("description", JString(sv.description)) \o
            JOptional("features", sv.features, LAMBDA fs : JArray(fs, JString)))

JImage(img) == JObject(JMember("url", JString(img.url)) \o JMember("alt", JString(img.alt)))

Stringify(c) ==
    JObject(
        JMember("name", JString(c.name)) \o
        JMember("description", JString(c.description)) \o
        JMember("pages", JObject(
            JMember("home", JObject(
                JMember("hero", JHomeHero(c.pages.home.hero)) \o
                JMember("features", JArray(c.pages.home.features, JFeature)))) \o
            JOptional("about", c.pages.about, LAMBDA a :
                JObject(JOptional("hero", a.hero, JPageHero) \o
                        JOptional("blurb", a.blurb, JString))) \o
            JOptional("contact", c.pages.contact, LAMBDA ct :
                JObject(JOptional("hero", ct.hero, JPageHero) \o
                        JOptional("emailPlaceholder", ct.emailPlaceholder, JString))) \o
            JOptional("services", c.pages.services, LAMBDA sp :
                JObject(JOptional("hero", sp.hero, JPageHero) \o
                        JOptional("services", sp.services, LAMBDA svs :
                            JArray(svs, JService)))))) \o
        JOptional("images", c.images, LAMBDA imgs : JArray(imgs, JImage)))

-----------------------------------------------------------------------------
(* Security check: validateSecurityConstraints (src/lib/schemas.ts) *)

\* the {32,} of /[a-f0-9]{32,}/i
HexRunLength == 32

sensitivePatterns ==
    << "api[_-]?key", "secret", "password", "token", "private[_-]?key", "[a-f0-9]{32,}" >>

\* the patterns without the flag i
SensitiveTestCaseSensitive(source, str) ==
    CASE source = "api[_-]?key" ->
            Includes(str, "apikey") \/ Includes(str, "api_key") \/ Includes(str, "api-key")
      [] source = "private[_-]?key" ->
            Includes(str, "privatekey") \/ Includes(str, "private_key") \/
            Includes(str, "private-key")
      [] source = "[a-f0-9]{32,}" ->
            \E i \in 1..(Len(str) - HexRunLength + 1) :
                \A j \in i..(i + HexRunLength - 1) :
                    IndexIn(Digits \o "abcdef", At(str, j)) # 0
      [] OTHER -> Includes(str, source)

\* pattern.test(str) for the pattern with the given source, flag i
SensitiveTest(source, str) ==
    LET l == ToLowerCase(str) IN
    CASE source = "api[_-]?key" ->
            Includes(l, "apikey") \/ Includes(l, "api_key") \/ Includes(l, "api-key")
      [] source = "private[_-]?key" ->
            Includes(l, "privatekey") \/ Includes(l, "private_key") \/ Includes(l, "private-key")
      [] source = "[a-f0-9]{32,}" ->
            \E i \in 1..(Len(l) - HexRunLength + 1) :
                \A j \in i..(i + HexRunLength - 1) : IsHex(At(l, j))
      [] OTHER -> Includes(l, source)

validateSecurityConstraints(config) ==
    LET configStr == Stringify(config)
        found  == SelectSeq(sensitivePatterns, LAMBDA p : SensitiveTest(p, configStr))
        errors == [k \in 1..Len(found) |->
                      "Potential sensitive data detected: pattern " \o found[k]]
    IN  [valid |-> errors = << >>, errors |-> errors]


-----------------------------------------------------------------------------
(* Idle values: a specification of one component holds the others fixed *)

McpIdle ==
    /\ mcpPc = "off" /\ mcpCall = None /\ mcpPrompt = "" /\ mcpInitRetries = None
    /\ mcpRetries = None /\ mcpRequests = 0 /\ mcpResult = None
PvIdle == pvPc = "off" /\ pvRequest = None /\ pvResponse = None
ValIdle ==
    /\ valDefects = {} /\ valPlants = {} /\ valArtifact = None
    /\ valSchema = None /\ valSecurity = None
FnIdle == fnCall = None /\ fnResult = None
SynIdle == synClock = 0 /\ synCalls = << >>
TsIdle == tsStore = [seen |-> {}, fails |-> 0] /\ tsRedeemed = {} /\ tsReqs = << >>
FwrIdle == fwrOpts = None /\ fwrPc = "idle" /\ fwrAttempt = 0 /\ fwrTimers = << >> /\ fwrLastErr = None /\ fwrOutcomes = << >> /\ fwrWaited = << >> /\ fwrResult = None
CliIdle ==
    /\ cliPc = "off" /\ cliOptions = None /\ cliSiteConfig = None
    /\ cliEffects = << >>
WhIdle == whPc = "off" /\ whRequest = None /\ whResponse = None
SanIdle ==
    /\ sanPc = "off" /\ sanInput = None /\ sanOptions = None
    /\ sanHeap = << >>
    /\ sanFirst = None /\ sanSecond = None

-----------------------------------------------------------------------------
(* generateSiteConfigFromMCP and generateSiteConfig                         *)
(* (src/lib/mcp-client.ts, first definition)                                *)

\* prompt.length > 1000
MaxPromptLength == 1000
\* serverConfig.retries || 2
DefaultRetries == 2

\* bounds of the model
MaxRetriesOption == 3     \* serverConfig.retries ranges over absent, 0..MaxRetriesOption
MaxRequests == 6          \* no more than MaxRequests fetch() calls are followed

McpPrompts ==
    { "", "   ", "\t\n ", Repeat("a", MaxPromptLength + 1),
      Repeat("a", MaxPromptLength), "  x ",
      "Create a portfolio site for Creative Studio" }

\* prompts of the local generation
LongName46 == "Northern Lights Strategy and Advisory Partners"
LongName49 == "Northern Lights Strategy and Advisory Partnership"
GenPrompts ==
    { "Create a portfolio site for Creative Studio",
      "Create a law firm website for Smith & Associates specializing in corporate law",
      "Build a restaurant website for Bella's Italian Cafe with authentic cuisine",
      "Design a consulting website for Strategic Solutions LLC focusing on business optimization",
      "Make a portfolio site for Creative Studio showcasing design and branding work",
      "Create a medical practice website for Valley Health Clinic",
      "Build an agency website for Digital Innovations specializing in web development",
      "Consulting for \"" \o LongName46 \o "\"",
      "Design studio named \"" \o LongName49 \o "\"",
      "Portfolio for \"" \o LongName49 \o "\"",
      "a site called 'The Acme Co.' about us, contact",
      "Make me a site",
      "We need customer service and ABOUT pages",
      "Contact page and services for a law office",
      "development agency for startups",
      "agency for software development",
      "legal consulting firm",
      "consulting on legal matters",
      "food design studio",
      "restaurant and cafe near the law school",
      "Website for an attorney",
      "consultant and developer",
      "web development for a food truck" }

\* options.maxFeatures: not supplied, or a number from -1 to MaxFeaturesOption
MaxFeaturesOption == 7
MaxFeaturesOptions == {None} \cup {Some(n) : n \in (-1)..MaxFeaturesOption}

\* serverConfig?.url: no serverConfig, an empty url, a url
ServerUrls == { None, Some(""), Some("https://mcp.example.com/generate") }

RetriesOptions == {None} \cup {Some(n) : n \in 0..MaxRetriesOption}

\* configurations a remote server may send as data
SecretNameConfig == WithName(BaseConfig, "Test Company with API_KEY=secret123")
LongNameConfig == WithName(BaseConfig, Repeat("n", 101))
NoFeaturesConfig == WithFeatures(BaseConfig, << >>)
SevenFeaturesConfig ==
    WithFeatures(BaseConfig, [i \in 1..7 |-> Feature(None, "Feature " \o ToString(i), "Text")])
HexConfig == WithDescription(BaseConfig, "build " \o Repeat("0a1B", 8))
RemoteConfigs ==
    { BaseConfig, SecretNameConfig, LongNameConfig, NoFeaturesConfig, SevenFeaturesConfig,
      HexConfig }

\* x || d for a number x that may be undefined: 0 is falsy
OrDefault(o, d) == IF IsSome(o) /\ Get(o) # 0 THEN Get(o) ELSE d

\* response.ok
ResponseOk(status) == status >= 200 /\ status <= 299

HttpStatuses == {200, 400, 404, 429, 500, 503}

\* what the awaited fetch() and response.json() can produce
Body(parses, success, error, data) ==
    [parses |-> parses, success |-> success, error |-> error, data |-> data]
NoBody == Body(FALSE, FALSE, "", None)
OkBodies ==
    { NoBody,                                   \* response.json() rejects
      Body(TRUE, FALSE, "", None),              \* no success flag, no error text
      Body(TRUE, FALSE, "quota exceeded", None),
      Body(TRUE, TRUE, "", None) }              \* success without data
    \cup { Body(TRUE, TRUE, "", Some(c)) : c \in RemoteConfigs }
FetchOutcomes ==
    { [kind |-> "networkError", status |-> 0, body |-> NoBody],
      [kind |-> "timeout", status |-> 0, body |-> NoBody] }
    \cup { [kind |-> "response", status |-> st, body |-> NoBody] :
               st \in {x \in HttpStatuses : ~ResponseOk(x)} }
    \cup { [kind |-> "response", status |-> st, body |-> b] :
               st \in {x \in HttpStatuses : ResponseOk(x)}, b \in OkBodies }

\* the outcomes that reach catch (fetchError): fetch rejects, the status is not
\* ok (the code throws), or response.json() rejects
FetchThrows(o) ==
    \/ o.kind # "response"
    \/ ~ResponseOk(o.status)
    \/ ~o.body.parses

ThrownMessage(o) ==
    CASE o.kind = "networkError" -> "fetch failed"
      [] o.kind = "timeout" -> "This operation was aborted"
      [] ~ResponseOk(o.status) -> "MCP server responded with " \o ToString(o.status)
      [] OTHER -> "Unexpected end of JSON input"

Failure(error) == [success |-> FALSE, error |-> error, data |-> None]
Success(data) == [success |-> TRUE, error |-> "", data |-> Some(data)]

\* a gate that compares the prompt with the empty string and does not trim
GateWithoutTrim(prompt) ==
    IF prompt = "" THEN Some(Failure("Prompt is required"))
    ELSE IF Len(prompt) > MaxPromptLength
    THEN Some(Failure("Prompt is too long (max 1000 characters)"))
    ELSE None

\* lines 141-153 and 261-273: the prompt gate; None when the prompt passes
PromptGate(prompt) ==
    IF prompt = "" \/ Len(Trim(prompt)) = 0 THEN Some(Failure("Prompt is required"))
    ELSE IF Len(prompt) > MaxPromptLength
    THEN Some(Failure("Prompt is too long (max 1000 characters)"))
    ELSE None

-----------------------------------------------------------------------------
(* Local generation: generateSiteConfig and its helpers                     *)
(* (src/lib/mcp-client.ts, first definition, lines 255-685)                 *)

\* [a-zA-Z], which is also [A-Z] under the i flag
IsLetter(c) == IndexIn(UpperLetters, c) # 0 \/ IndexIn(LowerLetters, c) # 0

\* [a-zA-Z\s&]
IsNameChar(c) == IsLetter(c) \/ IsSpace(c) \/ c = "&"

\* ["']
IsQuote(c) == c \in {"\"", "'"}

\* s.endsWith(p)
EndsWith(s, p) == Len(p) <= Len(s) /\ SubSeq(s, Len(s) - Len(p) + 1, Len(s)) = p

\* the positions of s at which p starts
Occurrences(s, p) == { i \in 1..(Len(s) - Len(p) + 1) : StartsWithAt(s, i, p) }

\* the number of characters from position i on that are not the character d
RunUntil(s, i, d) == RunLength(s, i, LAMBDA c : c # d)

\* the number of characters from position i on that are no quotation mark
RunUntilQuote(s, i) == RunLength(s, i, LAMBDA c : ~IsQuote(c))

\* /for ["']([^"']+)["']/i, and the same with called and named: the capture
\* of the leftmost match, None without a match. l is the prompt in lower case.
QuotedAfterMatch(prompt, l, word) ==
    LET open == { q \in { i + Len(word) : i \in Occurrences(l, word) } :
                    /\ IsQuote(At(prompt, q))
                    /\ RunUntilQuote(prompt, q + 1) >= 1
                    /\ IsQuote(At(prompt, q + 1 + RunUntilQuote(prompt, q + 1))) }
    IN  IF open = {} THEN None
        ELSE The({ Some(SubSeq(prompt, q + 1, q + RunUntilQuote(prompt, q + 1)))
                   : q \in {Min(open)} })

\* /"([^"]+)"/ and /'([^']+)'/: d is the delimiter
DelimitedMatch(prompt, d) ==
    LET open == { q \in Occurrences(prompt, d) :
                    /\ RunUntil(prompt, q + 1, d) >= 1
                    /\ At(prompt, q + 1 + RunUntil(prompt, q + 1, d)) = d }
    IN  IF open = {} THEN None
        ELSE The({ Some(SubSeq(prompt, q + 1, q + RunUntil(prompt, q + 1, d)))
                   : q \in {Min(open)} })

\* \s+(?:w1|w2|...) at position j: white space up to a word of words. The
\* words begin with a letter, so \s+ takes the whole run of white space.
SpaceThenWord(l, j, words) ==
    /\ IsSpace(At(l, j))
    /\ \E w \in words : StartsWithAt(l, j + RunLength(l, j, IsSpace), w)

\* ([A-Z][a-zA-Z\s&]+?)\s+(?:w1|w2|...) with the capture beginning at a
\* position of starts: the capture of the leftmost match, which is the
\* shortest one from its start (+? is lazy); None without a match
LazyNameMatch(prompt, l, starts, words) ==
    LET stops == { j \in 1..Len(l) : SpaceThenWord(l, j, words) }
        from(j) == { i \in starts : /\ i + 2 <= j
                                    /\ IsLetter(At(l, i))
                                    /\ \A x \in (i + 1)..(j - 1) : IsNameChar(At(l, x)) }
        found == UNION { from(j) : j \in stops }
    IN  IF found = {} THEN None
        ELSE The({ Some(SubSeq(prompt, i, Min({ j \in stops : i \in from(j) }) - 1))
                   : i \in {Min(found)} })

\* company|corp|inc|llc|studio|agency|co\.?
CompanyWords == {"company", "corp", "inc", "llc", "studio", "agency", "co"}

\* studio|agency|consulting|design|development
TypeWords == {"studio", "agency", "consulting", "design", "development"}

\* . of a regular expression: any character but a line terminator
NoLineBreak(l, a, b) == \A j \in a..b : At(l, j) \notin {"\n", "\r"}

\* /create.*?(?:site|website).*?for ([A-Z][a-zA-Z\s&]+)/i and the same with
\* build: from the leftmost verb, the nearest "site" (every "website" ends in
\* one) and from there the nearest "for " that a letter and one more name
\* character follow; the capture runs as far as name characters go
SiteForMatch(prompt, l, verb) ==
    LET fors == { f \in Occurrences(l, "for ") :
                    IsLetter(At(l, f + 4)) /\ IsNameChar(At(l, f + 5)) }
        sites(c) == { s \in Occurrences(l, "site") :
                        /\ s >= c + Len(verb)
                        /\ NoLineBreak(l, c + Len(verb), s - 1) }
        forsAfter(s) == { f \in fors : f >= s + 4 /\ NoLineBreak(l, s + 4, f - 1) }
        verbs == { c \in Occurrences(l, verb) : \E s \in sites(c) : forsAfter(s) # {} }
    IN  IF verbs = {} THEN None
        ELSE The({ Some(SubSeq(prompt, f + 4, f + 4 + RunLength(l, f + 5, IsNameChar)))
                   : f \in { Min(forsAfter(Min({ s \in sites(Min(verbs)) :
                                                   forsAfter(s) # {} }))) } })

\* the patterns of extractSiteName, in order: the capture of each
NameCaptures(prompt) ==
    The({ << QuotedAfterMatch(prompt, l, "for "),
             QuotedAfterMatch(prompt, l, "called "),
             QuotedAfterMatch(prompt, l, "named "),
             DelimitedMatch(prompt, "\""),
             DelimitedMatch(prompt, "'"),
             LazyNameMatch(prompt, l, { i + 4 : i \in Occurrences(l, "for ") }, CompanyWords),
             SiteForMatch(prompt, l, "create"),
             SiteForMatch(prompt, l, "build"),
             LazyNameMatch(prompt, l, 1..Len(l), TypeWords) >>
          : l \in {ToLowerCase(prompt)} })

\* .replace(/^(the|a|an)\s+/i, "") on a text whose white space is single spaces
StripArticle(name) ==
    The({ IF StartsWith(l, "the ") THEN SubstringFrom(name, 4)
          ELSE IF StartsWith(l, "a ") THEN SubstringFrom(name, 2)
          ELSE IF StartsWith(l, "an ") THEN SubstringFrom(name, 3)
          ELSE name
          : l \in {ToLowerCase(name)} })

\* .replace(/\s+(company|corp|inc|llc|co\.?)$/i, "")
StripCompanySuffix(name) ==
    The({ IF \E w \in {" company", " corp", " inc", " llc", " co", " co."} : EndsWith(l, w)
          THEN Substring0(name, Len(name) - Len(CHOOSE w \in {" company", " corp", " inc",
                                                             " llc", " co", " co."} :
                                                    EndsWith(l, w)))
          ELSE name
          : l \in {ToLowerCase(name)} })

\* lines 452-455: the clean-up of a capture
CleanName(capture) == StripCompanySuffix(StripArticle(CollapseSpaces(Trim(capture))))

\* lines 450-458: whether the loop returns the cleaned capture of a pattern
NameAccepted(capture) ==
    /\ IsSome(capture)
    /\ Len(Get(capture)) > 2
    /\ Len(Get(capture)) < 50
    /\ Len(CleanName(Get(capture))) > 2

\* the name of the first pattern whose capture is accepted, None (null) when
\* there is none
extractSiteName(prompt) ==
    The({ IF \E k \in 1..Len(captures) : NameAccepted(captures[k])
          THEN Some(CleanName(Get(captures[Min({ k \in 1..Len(captures) :
                                                   NameAccepted(captures[k]) })])))
          ELSE None
          : captures \in {NameCaptures(prompt)} })

\* The feature sets of generateFeatures. An icon is an emoji in the source; it is
\* written here as a text of letters and digits of the same length, the
\* same text for the same emoji.
DesignFeatures ==
    << Feature(Some("i001"), "Brand Design",
           "Complete brand identity packages including logos, typography, and visual guidelines."),
       Feature(Some("i002"), "Web Development",
           "Modern, responsive websites built with cutting-edge technology and optimization."),
       Feature(Some("i003"), "Digital Strategy",
           "Data-driven marketing strategies to reach and engage the right audience effectively."),
       Feature(Some("i004"), "User Experience",
           "Intuitive user interfaces designed to enhance engagement and conversion rates.") >>

ConsultingFeatures ==
    << Feature(Some("i005"), "Strategic Planning",
           "Comprehensive business strategy development to align operations with growth objectives."),
       Feature(Some("i06"), "Process Optimization",
           "Streamline operations and eliminate inefficiencies to boost productivity and performance."),
       Feature(Some("i007"), "Performance Analytics",
           "Data-driven insights and KPI tracking to measure success and identify opportunities."),
       Feature(Some("i008"), "Market Research",
           "In-depth market analysis to understand trends, competition, and opportunities.") >>

AgencyFeatures ==
    << Feature(Some("i06"), "Fast Development",
           "Rapid prototyping and development cycles to get your project to market quickly."),
       Feature(Some("i000010"), "Secure & Scalable",
           "Enterprise-grade security and architecture designed to grow with your business."),
       Feature(Some("i008"), "Custom Solutions",
           "Tailored applications built specifically for your business requirements and goals.") >>

RestaurantFeatures ==
    << Feature(Some("i000012"), "Exceptional Dining",
           "Carefully crafted dishes using the finest ingredients and innovative techniques."),
       Feature(Some("i013"), "Award-Winning Service",
           "Professional staff dedicated to creating memorable dining experiences."),
       Feature(Some("i014"), "Ambiance & Atmosphere",
           "Thoughtfully designed spaces that enhance every aspect of your visit.") >>

LegalFeatures ==
    << Feature(Some("i00015"), "Expert Representation",
           "Experienced legal counsel with a proven track record of successful outcomes."),
       Feature(Some("i000010"), "Comprehensive Protection",
           "Full-service legal support to protect your interests and minimize risk."),
       Feature(Some("i017"), "Strategic Guidance",
           "Clear, actionable legal advice to help you make informed decisions.") >>

DefaultFeatures ==
    << Feature(Some("i008"), "Professional Service",
           "High-quality solutions tailored to your specific business needs and requirements."),
       Feature(Some("i019"), "Expert Team",
           "Experienced professionals dedicated to delivering exceptional results for your projects."),
       Feature(Some("i000020"), "Reliable Support",
           "Ongoing support and maintenance to ensure your solutions continue to perform optimally.") >>

\* some keyword of the sequence occurs in the lower-case prompt
IncludesAny(l, keywords) == \E k \in 1..Len(keywords) : Includes(l, keywords[k])

\* the businessTypes table of extractSiteDescription
businessTypes ==
    << [keywords |-> <<"brochure", "business">>,
        description |-> "Professional business website"],
       [keywords |-> <<"portfolio">>,
        description |-> "Creative portfolio website showcasing work and expertise"],
       [keywords |-> <<"consulting", "consultant">>,
        description |-> "Strategic consulting services and business solutions"],
       [keywords |-> <<"studio", "design">>,
        description |-> "Creative design studio providing innovative solutions"],
       [keywords |-> <<"agency", "digital">>,
        description |-> "Professional digital agency delivering results-driven solutions"],
       [keywords |-> <<"restaurant", "cafe", "food">>,
        description |-> "Restaurant and dining experience"],
       [keywords |-> <<"law", "legal", "attorney">>,
        description |-> "Professional legal services and expertise"],
       [keywords |-> <<"medical", "healthcare", "clinic">>,
        description |-> "Healthcare and medical services"],
       [keywords |-> <<"real estate", "property">>,
        description |-> "Real estate and property services"],
       [keywords |-> <<"fitness", "gym", "wellness">>,
        description |-> "Fitness and wellness services"],
       [keywords |-> <<"education", "school", "learning">>,
        description |-> "Educational services and programs"],
       [keywords |-> <<"nonprofit", "charity", "foundation">>,
        description |-> "Nonprofit organization making a positive impact"] >>

\* the description of the first business type one of whose keywords occurs
extractSiteDescription(prompt) ==
    The({ IF \E t \in 1..Len(businessTypes) : IncludesAny(l, businessTypes[t].keywords)
          THEN Some(businessTypes[Min({ t \in 1..Len(businessTypes) :
                                          IncludesAny(l, businessTypes[t].keywords) })]
                        .description)
          ELSE None
          : l \in {ToLowerCase(prompt)} })

extractHeroTitle(prompt) ==
    The({ IF Includes(l, "portfolio")
          THEN Some(IF IsSome(siteName) THEN Get(siteName) \o " Portfolio"
                    ELSE "Creative Portfolio")
          ELSE IF Includes(l, "consulting")
          THEN Some(IF IsSome(siteName) THEN "Expert Consulting from " \o Get(siteName)
                    ELSE "Expert Consulting Services")
          ELSE IF Includes(l, "studio") \/ Includes(l, "design")
          THEN Some(IF IsSome(siteName) THEN "Creative Solutions by " \o Get(siteName)
                    ELSE "Creative Design Solutions")
          ELSE IF Includes(l, "agency")
          THEN Some(IF IsSome(siteName) THEN Get(siteName) \o " Digital Agency"
                    ELSE "Digital Agency Services")
          ELSE IF Includes(l, "restaurant") \/ Includes(l, "cafe")
          THEN Some(IF IsSome(siteName) THEN "Welcome to " \o Get(siteName)
                    ELSE "Exceptional Dining Experience")
          ELSE IF IsSome(siteName) THEN Some("Welcome to " \o Get(siteName))
          ELSE None
          : siteName \in {extractSiteName(prompt)}, l \in {ToLowerCase(prompt)} })

extractHeroSubtitle(prompt) ==
    The({ IF Includes(l, "studio") \/ Includes(l, "design")
          THEN Some("We transform your vision into stunning digital experiences that captivate and convert.")
          ELSE IF Includes(l, "consulting")
          THEN Some("Strategic consulting services to optimize operations, increase profitability, and drive growth.")
          ELSE IF Includes(l, "portfolio")
          THEN Some("Showcasing innovative projects and creative solutions that make an impact.")
          ELSE IF Includes(l, "agency")
          THEN Some("Professional digital services to help your business succeed in the modern marketplace.")
          ELSE IF Includes(l, "restaurant") \/ Includes(l, "cafe")
          THEN Some("Crafting memorable dining experiences with exceptional food and outstanding service.")
          ELSE IF Includes(l, "law") \/ Includes(l, "legal")
          THEN Some("Providing expert legal counsel and representation with integrity and dedication.")
          ELSE IF Includes(l, "medical") \/ Includes(l, "healthcare")
          THEN Some("Comprehensive healthcare services focused on your well-being and recovery.")
          ELSE None
          : l \in {ToLowerCase(prompt)} })

\* the branches of the feature selection tried in the opposite order
selectedFeaturesLastWins(l) ==
    IF Includes(l, "law") \/ Includes(l, "legal") \/ Includes(l, "attorney")
    THEN LegalFeatures
    ELSE IF Includes(l, "restaurant") \/ Includes(l, "cafe") \/ Includes(l, "food")
    THEN RestaurantFeatures
    ELSE IF Includes(l, "agency") \/ Includes(l, "development")
    THEN AgencyFeatures
    ELSE IF Includes(l, "consulting") \/ Includes(l, "consultant")
    THEN ConsultingFeatures
    ELSE IF Includes(l, "studio") \/ Includes(l, "design") \/ Includes(l, "portfolio")
    THEN DesignFeatures
    ELSE DefaultFeatures

\* lines 649-682: the feature set of the first branch whose keyword occurs
selectedFeatures(l) ==
    IF Includes(l, "studio") \/ Includes(l, "design") \/ Includes(l, "portfolio")
    THEN DesignFeatures
    ELSE IF Includes(l, "consulting") \/ Includes(l, "consultant")
    THEN ConsultingFeatures
    ELSE IF Includes(l, "agency") \/ Includes(l, "development")
    THEN AgencyFeatures
    ELSE IF Includes(l, "restaurant") \/ Includes(l, "cafe") \/ Includes(l, "food")
    THEN RestaurantFeatures
    ELSE IF Includes(l, "law") \/ Includes(l, "legal") \/ Includes(l, "attorney")
    THEN LegalFeatures
    ELSE DefaultFeatures

\* seq.slice(0, end) for an integer end: a negative end counts from the length
Slice0(seq, end) ==
    LET to == IF end < 0 THEN Len(seq) + end ELSE end
    IN  IF to <= 0 THEN << >>
        ELSE IF to >= Len(seq) THEN seq
        ELSE SubSeq(seq, 1, to)

\* Math.min(a, b)
MathMin(a, b) == IF a <= b THEN a ELSE b

generateFeatures(prompt, count) ==
    The({ Slice0(selected, MathMin(count, Len(selected)))
          : selected \in {selectedFeatures(ToLowerCase(prompt))} })

\* options.maxFeatures || 3
DefaultMaxFeatures == 3

\* x || d for a string x that may be null: the empty string is falsy
OrText(o, d) == IF IsSome(o) /\ Get(o) # "" THEN Get(o) ELSE d

\* lines 275-305: the configuration built from the prompt
SynthesizedConfig(prompt, maxFeatures) ==
    The({ [ name |-> OrText(extractSiteName(prompt), "Generated Site"),
            description |-> OrText(extractSiteDescription(prompt),
                                   "Site generated from MCP prompt"),
            pages |->
              [ home |->
                  [ hero |-> [ title |-> OrText(extractHeroTitle(prompt), "Welcome to Our Site"),
                               subtitle |-> OrText(extractHeroSubtitle(prompt),
                                   "Professional services and solutions for your business needs."),
                               cta |-> None ],
                    features |-> generateFeatures(prompt,
                                     OrDefault(maxFeatures, DefaultMaxFeatures)) ],
                about |-> IF Includes(l, "about")
                          THEN Some([ hero |-> None,
                                      blurb |-> Some("We are a professional company dedicated to excellence.") ])
                          ELSE None,
                contact |-> IF Includes(l, "contact")
                            THEN Some([ hero |-> None,
                                        emailPlaceholder |-> Some("Enter your email address") ])
                            ELSE None,
                services |-> None ],
            images |-> None ]
          : l \in {ToLowerCase(prompt)} })

\* validation.errors?.join(", "): each error is the path of an issue and its
\* message, written here as the issue's code
JoinErrors(issues) ==
    LET upTo[i \in 0..Len(issues)] ==
            IF i = 0 THEN ""
            ELSE (IF i = 1 THEN "" ELSE upTo[i - 1] \o ", ") \o
                 issues[i].path \o ": " \o issues[i].code
    IN  upTo[Len(issues)]

\* generateSiteConfig(prompt, options) of the first definition (the local
\* fallback): the gate, the configuration built from the prompt, its check
generateSiteConfigLocal(prompt, maxFeatures) ==
    IF IsSome(PromptGate(prompt)) THEN Get(PromptGate(prompt))
    ELSE The({ The({
             IF ~validation.valid
             THEN Failure("Generated config failed validation: " \o
                          JoinErrors(validation.errors))
             ELSE Success(siteConfig)
             : validation \in {validateArtifact(siteConfig)} })
             : siteConfig \in {SynthesizedConfig(prompt, maxFeatures)} })

-----------------------------------------------------------------------------
(* generateSiteConfigFromMCP: the remote path *)

\* lines 196-223: the value returned for a response whose body parsed
ResponseResult(body) ==
    IF ~body.success
    THEN Failure(IF body.error # "" THEN body.error
                 ELSE "MCP server returned unsuccessful response")
    ELSE IF ~IsSome(body.data) THEN Failure("Generated config failed validation: Required")
    ELSE IF ~validateArtifact(Get(body.data)).valid
    THEN Failure("Generated config failed validation")
    ELSE Success(Get(body.data))

\* lines 228-229: whether the catch block calls generateSiteConfigFromMCP again
RetriesLeft(serverRetries) == OrDefault(serverRetries, DefaultRetries)

Call(fn, maxFeatures, url) == [fn |-> fn, maxFeatures |-> maxFeatures, url |-> url]

\* the caller's call of generateSiteConfigFromMCP: the gate, then the local
\* generation when there is no server url, else the first fetch()
generateSiteConfigFromMCP(prompt, maxFeatures, url, retries) ==
    /\ mcpPc = "idle"
    /\ mcpCall' = Some(Call("generateSiteConfigFromMCP", maxFeatures, url))
    /\ mcpPrompt' = prompt
    /\ mcpInitRetries' = retries
    /\ mcpRetries' = retries
    /\ IF IsSome(PromptGate(prompt))
       THEN /\ mcpPc' = "done"
            /\ mcpResult' = PromptGate(prompt)
            /\ mcpRequests' = 0
       ELSE IF ~IsSome(url) \/ Get(url) = ""
       THEN /\ mcpPc' = "done"
            /\ mcpResult' = Some(generateSiteConfigLocal(prompt, maxFeatures))
            /\ mcpRequests' = 0
       ELSE /\ mcpPc' = "fetching"
            /\ mcpResult' = None
            /\ mcpRequests' = 1
    /\ UNCHANGED <<pvVars, cliVars, whVars, sanVars, valVars, fnVars, synVars, tsVars, fwrVars>>

\* the caller's call of generateSiteConfig (the local generation)
GenerateSiteConfigCall(prompt, maxFeatures) ==
    /\ mcpPc = "idle"
    /\ mcpCall' = Some(Call("generateSiteConfig", maxFeatures, None))
    /\ mcpPrompt' = prompt
    /\ mcpResult' = Some(generateSiteConfigLocal(prompt, maxFeatures))
    /\ mcpPc' = "done"
    /\ UNCHANGED <<mcpInitRetries, mcpRetries, mcpRequests>>
    /\ UNCHANGED <<pvVars, cliVars, whVars, sanVars, valVars, fnVars, synVars, tsVars, fwrVars>>

\* the awaited fetch settles with a body that parses: the call returns
McpResponse(o) ==
    /\ mcpPc = "fetching"
    /\ ~FetchThrows(o)
    /\ mcpPc' = "done"
    /\ mcpResult' = Some(ResponseResult(o.body))
    /\ UNCHANGED <<mcpCall, mcpPrompt, mcpInitRetries, mcpRetries, mcpRequests>>
    /\ UNCHANGED <<pvVars, cliVars, whVars, sanVars, valVars, fnVars, synVars, tsVars, fwrVars>>

\* the awaited fetch throws: catch (fetchError) retries by a recursive call with
\* retries - 1 (which passes the gate again and issues the next fetch), or rethrows
\* into the outer catch
McpFetchError(o) ==
    /\ mcpPc = "fetching"
    /\ FetchThrows(o)
    /\ IF RetriesLeft(mcpRetries) > 0
       THEN /\ mcpRequests < MaxRequests
            /\ mcpRetries' = Some(RetriesLeft(mcpRetries) - 1)
            /\ mcpRequests' = mcpRequests + 1
            /\ UNCHANGED <<mcpPc, mcpResult>>
       ELSE /\ mcpPc' = "done"
            /\ mcpResult' = Some(Failure(ThrownMessage(o)))
            /\ UNCHANGED <<mcpRetries, mcpRequests>>
    /\ UNCHANGED <<mcpCall, mcpPrompt, mcpInitRetries>>
    /\ UNCHANGED <<pvVars, cliVars, whVars, sanVars, valVars, fnVars, synVars, tsVars, fwrVars>>

InitMCP ==
    /\ mcpPc = "idle" /\ mcpCall = None /\ mcpPrompt = "" /\ mcpInitRetries = None
    /\ mcpRetries = None /\ mcpRequests = 0 /\ mcpResult = None
    /\ PvIdle /\ CliIdle /\ WhIdle /\ SanIdle /\ ValIdle /\ FnIdle /\ SynIdle /\ TsIdle /\ FwrIdle

NextMCP ==
    \/ \E p \in McpPrompts, u \in ServerUrls, r \in RetriesOptions :
           generateSiteConfigFromMCP(p, None, u, r)
    \/ \E p \in GenPrompts, m \in MaxFeaturesOptions :
           generateSiteConfigFromMCP(p, m, None, None)
    \/ \E p \in McpPrompts \cup GenPrompts, m \in MaxFeaturesOptions :
           GenerateSiteConfigCall(p, m)
    \/ \E o \in FetchOutcomes : McpResponse(o)
    \/ \E o \in FetchOutcomes : McpFetchError(o)

SpecMCP == InitMCP /\ [][NextMCP]_vars


\* the retry budget the caller configured: serverConfig.retries, 2 when not given
ConfiguredRetries == IF IsSome(mcpInitRetries) THEN Get(mcpInitRetries) ELSE DefaultRetries

(* C1: with a configured server URL and every request failing,               *)
(* generateSiteConfigFromMCP issues at most retries+1 requests in total      *)
(* (retries from serverConfig.retries, default 2) and then returns           *)
(* success=false: the number of requests never exceeds retries+1.            *)
C1_RequestsBounded == mcpRequests <= ConfiguredRetries + 1

(* C5: every configuration generateSiteConfigFromMCP returns with            *)
(* success=true from a remote response has passed the full Validator: the    *)
(* schema check and the security check.                                      *)
C5_ReturnedPassedValidator ==
    (IsSome(mcpResult) /\ Get(mcpResult).success /\ mcpRequests > 0) =>
        /\ validateArtifact(Get(Get(mcpResult).data)).valid
        /\ validateSecurityConstraints(Get(Get(mcpResult).data)).valid


\* every character of the prompt is white space (so is the empty prompt)
BlankPrompt == \A i \in 1..Len(mcpPrompt) : IsSpace(At(mcpPrompt, i))

\* the errors of the prompt gate
GateErrors == {"Prompt is required", "Prompt is too long (max 1000 characters)"}

(* C13: the prompt gate of generateSiteConfig and generateSiteConfigFromMCP: *)
(* a call with an empty or white-space prompt has returned success=false     *)
(* with "Prompt is required", a call with a prompt of more than 1000         *)
(* characters has returned success=false with "Prompt is too long (max 1000  *)
(* characters)", in both cases with no data and no request issued; a call    *)
(* with any other prompt is not answered with an error of the gate, and      *)
(* with a server url its request has been issued.                            *)
C13_PromptGate ==
    mcpPc # "idle" =>
        /\ BlankPrompt =>
              /\ mcpPc = "done"
              /\ mcpResult = Some(Failure("Prompt is required"))
              /\ mcpRequests = 0
        /\ (~BlankPrompt /\ Len(mcpPrompt) > 1000) =>
              /\ mcpPc = "done"
              /\ mcpResult = Some(Failure("Prompt is too long (max 1000 characters)"))
              /\ mcpRequests = 0
        /\ (~BlankPrompt /\ Len(mcpPrompt) <= 1000) =>
              /\ IsSome(mcpResult) => Get(mcpResult).error \notin GateErrors
              /\ (IsSome(Get(mcpCall).url) /\ Get(Get(mcpCall).url) # "") => mcpRequests >= 1

\* generateSiteConfigFromMCP with a server url has rejected a prompt of spaces
C13_Witness ==
    /\ mcpPc = "done"
    /\ Get(mcpCall).fn = "generateSiteConfigFromMCP"
    /\ IsSome(Get(mcpCall).url) /\ Get(Get(mcpCall).url) # ""
    /\ mcpPrompt = "   "
    /\ mcpResult = Some(Failure("Prompt is required"))
    /\ mcpRequests = 0

\* a call that went through the local generation has returned: generateSiteConfig,
\* or generateSiteConfigFromMCP without a server url, with a prompt the gate accepts
LocalGenerated ==
    /\ mcpPc = "done"
    /\ \/ Get(mcpCall).fn = "generateSiteConfig"
       \/ ~IsSome(Get(mcpCall).url)
       \/ Get(Get(mcpCall).url) = ""
    /\ ~BlankPrompt
    /\ Len(mcpPrompt) <= 1000

\* the features of the configuration returned
ReturnedFeatures == Get(Get(mcpResult).data).pages.home.features

(* C14: every configuration the local generation builds from a prompt the    *)
(* gate accepts satisfies the schema, so generateSiteConfig returns          *)
(* success=true, whatever name is extracted and whatever business type is    *)
(* detected (with maxFeatures not supplied).                                 *)
C14_LocalGenerationSucceeds ==
    (LocalGenerated /\ ~IsSome(Get(mcpCall).maxFeatures)) =>
        /\ Get(mcpResult).success
        /\ validateArtifact(Get(Get(mcpResult).data)).valid

\* the first n entries of a sequence, none for n <= 0
FirstEntries(seq, n) ==
    IF n <= 0 THEN << >> ELSE IF n >= Len(seq) THEN seq ELSE SubSeq(seq, 1, n)

\* maxFeatures as the caller supplied it, 3 when not supplied
SuppliedMaxFeatures ==
    IF IsSome(Get(mcpCall).maxFeatures) THEN Get(Get(mcpCall).maxFeatures) ELSE 3

(* C15: the features of a locally generated configuration are the first      *)
(* min(maxFeatures, L) entries of the selected bundle, in bundle order,      *)
(* where L is the bundle's length and maxFeatures is 3 when the option is    *)
(* not supplied.                                                             *)
C15_FeaturesArePrefix ==
    (LocalGenerated /\ Get(mcpResult).success) =>
        ReturnedFeatures =
            FirstEntries(selectedFeatures(ToLowerCase(mcpPrompt)), SuppliedMaxFeatures)

(* C16: every configuration returned with success=true, by generateSiteConfig *)
(* or by generateSiteConfigFromMCP from the local generation or from a        *)
(* remote response, for any prompt and any maxFeatures, has between 1 and 6   *)
(* features; and validateArtifact rejects a configuration with 0 or with      *)
(* more than 6 features.                                                      *)
C16_FeaturesCardinality ==
    /\ (IsSome(mcpResult) /\ Get(mcpResult).success) =>
          (Len(ReturnedFeatures) >= 1 /\ Len(ReturnedFeatures) <= 6)
    /\ \A c \in RemoteConfigs :
          Len(c.pages.home.features) \notin 1..6 => ~validateArtifact(c).valid

\* a remote response was answered, and a local call asking for 6 features
\* has returned the 4 of the bundle
C16_Witness ==
    /\ LocalGenerated
    /\ Get(mcpCall).maxFeatures = Some(6)
    /\ Get(mcpResult).success
    /\ Len(ReturnedFeatures) = 4

(* C17: in a locally generated configuration each optional page is decided   *)
(* by the case-insensitive presence of its word in the prompt: pages.about   *)
(* is present iff the prompt contains "about", pages.contact iff "contact",  *)
(* pages.services iff "service"; otherwise the key is absent.                *)
C17_OptionalPages ==
    (LocalGenerated /\ Get(mcpResult).success) =>
        /\ IsSome(Get(Get(mcpResult).data).pages.about)
               <=> Includes(ToLowerCase(mcpPrompt), "about")
        /\ IsSome(Get(Get(mcpResult).data).pages.contact)
               <=> Includes(ToLowerCase(mcpPrompt), "contact")
        /\ IsSome(Get(Get(mcpResult).data).pages.services)
               <=> Includes(ToLowerCase(mcpPrompt), "service")

\* the categories in their fixed order, each with its keywords and its bundle
Categories ==
    << [keywords |-> {"design", "studio", "portfolio"}, bundle |-> DesignFeatures],
       [keywords |-> {"consulting", "consultant"}, bundle |-> ConsultingFeatures],
       [keywords |-> {"agency", "development"}, bundle |-> AgencyFeatures],
       [keywords |-> {"restaurant", "cafe", "food"}, bundle |-> RestaurantFeatures],
       [keywords |-> {"law", "legal", "attorney"}, bundle |-> LegalFeatures] >>

\* the categories a keyword of which occurs somewhere in the prompt
MatchingCategories ==
    { k \in 1..Len(Categories) :
        \E w \in Categories[k].keywords : Includes(ToLowerCase(mcpPrompt), w) }

\* the bundle of the first matching category, the default bundle without one
FirstCategoryBundle ==
    IF MatchingCategories = {} THEN DefaultFeatures
    ELSE Categories[CHOOSE k \in MatchingCategories :
                        \A j \in MatchingCategories : k <= j].bundle

(* C18: the feature bundle of a locally generated configuration is that of   *)
(* the first category, in the order design/studio/portfolio, consulting,     *)
(* agency/development, restaurant/cafe/food, legal, default, a keyword of    *)
(* which the prompt contains, wherever in the prompt the keywords stand: the *)
(* features returned are the leading entries of that bundle.                 *)
C18_FirstCategoryWins ==
    (LocalGenerated /\ Get(mcpResult).success) =>
        /\ Len(ReturnedFeatures) <= Len(FirstCategoryBundle)
        /\ ReturnedFeatures = SubSeq(FirstCategoryBundle, 1, Len(ReturnedFeatures))

\* the prompt with "agency" and "development" got the agency bundle
C18_Witness ==
    /\ LocalGenerated
    /\ mcpPrompt = "Build an agency website for Digital Innovations specializing in web development"
    /\ Get(mcpResult).success
    /\ ReturnedFeatures = AgencyFeatures


\* the answers of the server that are not transient: a 4xx status other than
\* 429, or a 2xx response whose body is malformed or unsuccessful
NonTransient(o) ==
    /\ o.kind = "response"
    /\ \/ o.status >= 400 /\ o.status <= 499 /\ o.status # 429
       \/ ResponseOk(o.status) /\ (~o.body.parses \/ ~o.body.success)

(* C23: non-transient remote failures fail fast: when the server answers a   *)
(* request of generateSiteConfigFromMCP with an HTTP 4xx status other than   *)
(* 429, or with a malformed or unsuccessful response body, the call makes no *)
(* further request and returns success=false.                                *)
C23_NonTransientFailsFast ==
    [][ \A o \in FetchOutcomes :
            (NonTransient(o) /\ (McpResponse(o) \/ McpFetchError(o))) =>
                /\ mcpRequests' = mcpRequests
                /\ mcpPc' = "done"
                /\ IsSome(mcpResult') /\ ~Get(mcpResult').success ]_vars

-----------------------------------------------------------------------------
(* Regular expressions of the sanitizer (src/lib/sanitization.ts)           *)


IsNotGt(c) == c # ">"

\* /<tag[^>]*>.*?<\/tag>/gi at position i of the lower-cased text l: the length
\* of the match, 0 when there is none
TagPairMatch(tag, l, i) ==
    LET open  == "<" \o tag
        close == "</" \o tag \o ">"
    IN  The({ LET ends == {k \in (gt + 1)..(gt + 1 + RunLength(l, gt + 1, IsDot)) :
                              StartsWithAt(l, k, close)}
              IN  IF ~StartsWithAt(l, i, open) \/ gt > Len(l) \/ ends = {} THEN 0
                  ELSE Min(ends) + Len(close) - i
              : gt \in {i + Len(open) + RunLength(l, i + Len(open), IsNotGt)} })

\* /<embed[^>]*>/gi
OpenTagMatch(tag, l, i) ==
    LET open == "<" \o tag
        gt   == i + Len(open) + RunLength(l, i + Len(open), IsNotGt)
    IN  IF ~StartsWithAt(l, i, open) \/ gt > Len(l) THEN 0 ELSE gt + 1 - i

\* /data:(?!image\/)/gi
DataMatch(l, i) ==
    IF StartsWithAt(l, i, "data:") /\ ~StartsWithAt(l, i + 5, "image/") THEN 5 ELSE 0

\* /on\w+\s*=/gi
HandlerMatch(l, i) ==
    The({ The({ IF StartsWithAt(l, i, "on") /\ w >= 1 /\ At(l, i + 2 + w + sp) = "="
                THEN 2 + w + sp + 1
                ELSE 0
                : sp \in {RunLength(l, i + 2 + w, IsSpace)} })
          : w \in {RunLength(l, i + 2, IsWord)} })

\* the patterns of sanitizeLLMContent (src/lib/llm-client.ts, lines 120-126)

IsNotComma(c) == c # ","
IsNotQuote(c) == c \notin {"\"", "'"}

\* /<script[^>]*>[\s\S]*?<\/script>/gi: the nearest "</script>" after the
\* first ">", line breaks allowed in between
LlmScriptMatch(l, i) ==
    The({ LET ends == {k \in (gt + 1)..Len(l) : StartsWithAt(l, k, "</script>")}
          IN  IF ~StartsWithAt(l, i, "<script") \/ gt > Len(l) \/ ends = {} THEN 0
              ELSE Min(ends) + 9 - i
          : gt \in {i + 7 + RunLength(l, i + 7, IsNotGt)} })

\* /\s*on\w+\s*=\s*["'][^"']*["']/gi
LlmHandlerMatch(l, i) ==
    LET s0 == RunLength(l, i, IsSpace)
        w  == RunLength(l, i + s0 + 2, IsWord)
        s1 == RunLength(l, i + s0 + 2 + w, IsSpace)
        eq == i + s0 + 2 + w + s1
        s2 == RunLength(l, eq + 1, IsSpace)
        q1 == eq + 1 + s2
        q2 == q1 + 1 + RunLength(l, q1 + 1, IsNotQuote)
    IN  IF /\ StartsWithAt(l, i + s0, "on") /\ w >= 1
           /\ eq <= Len(l) /\ At(l, eq) = "="
           /\ q1 <= Len(l) /\ ~IsNotQuote(At(l, q1))
           /\ q2 <= Len(l)
        THEN q2 + 1 - i
        ELSE 0

\* /data:(?!image\/(?:png|jpg|jpeg|gif|svg|webp))[^,]*,/gi
LlmDataMatch(l, i) ==
    LET comma == i + 5 + RunLength(l, i + 5, IsNotComma)
    IN  IF /\ StartsWithAt(l, i, "data:")
           /\ \A f \in {"png", "jpg", "jpeg", "gif", "svg", "webp"} :
                  ~StartsWithAt(l, i + 5, "image/" \o f)
           /\ comma <= Len(l)
        THEN comma + 1 - i
        ELSE 0

\* the sources of the patterns of sanitizeLLMContent, in the order applied
llmPatterns ==
    << "<script[^>]*>[\\s\\S]*?<\\/script>", "\\s*on\\w+\\s*=\\s*[\"'][^\"']*[\"']",
       "javascript:", "data:(?!image\\/(?:png|jpg|jpeg|gif|svg|webp))[^,]*," >>

\* the sources of dangerousPatterns, in the order of the array
dangerousPatterns ==
    << "<script[^>]*>.*?<\\/script>", "<iframe[^>]*>.*?<\\/iframe>", "<embed[^>]*>",
       "<object[^>]*>.*?<\\/object>", "javascript:", "vbscript:", "data:(?!image\\/)",
       "on\\w+\\s*=" >>

MatchLength(pattern, l, i) ==
    CASE pattern = "<script[^>]*>.*?<\\/script>" -> TagPairMatch("script", l, i)
      [] pattern = "<iframe[^>]*>.*?<\\/iframe>" -> TagPairMatch("iframe", l, i)
      [] pattern = "<embed[^>]*>"                -> OpenTagMatch("embed", l, i)
      [] pattern = "<object[^>]*>.*?<\\/object>" -> TagPairMatch("object", l, i)
      [] pattern = "javascript:" -> IF StartsWithAt(l, i, "javascript:") THEN 11 ELSE 0
      [] pattern = "vbscript:"   -> IF StartsWithAt(l, i, "vbscript:") THEN 9 ELSE 0
      [] pattern = "data:(?!image\\/)" -> DataMatch(l, i)
      [] pattern = "on\\w+\\s*="       -> HandlerMatch(l, i)
      [] pattern = llmPatterns[1] -> LlmScriptMatch(l, i)
      [] pattern = llmPatterns[2] -> LlmHandlerMatch(l, i)
      [] pattern = llmPatterns[4] -> LlmDataMatch(l, i)

\* the positions where the pattern matches the lower-cased text l (flag i)
MatchStarts(pattern, l) == {i \in 1..Len(l) : MatchLength(pattern, l, i) > 0}

\* s.replace(pattern, repl) from position from on, l being s lower-cased: the
\* scan takes the leftmost match, replaces it and goes on after its end
RECURSIVE ReplaceFrom(_, _, _, _, _, _)
ReplaceFrom(pattern, s, l, starts, from, repl) ==
    LET next == {i \in starts : i >= from} IN
    IF next = {} THEN SubSeq(s, from, Len(s))
    ELSE LET i == Min(next)
             n == MatchLength(pattern, l, i)
         IN  SubSeq(s, from, i - 1) \o repl \o
             ReplaceFrom(pattern, s, l, starts, i + n, repl)

\* s.replace(pattern, repl) for a pattern with the g flag
Replace(s, pattern, repl) ==
    LET l == ToLowerCase(s)
    IN  ReplaceFrom(pattern, s, l, MatchStarts(pattern, l), 1, repl)

\* s.match(pattern) is not null
Matches(s, pattern) == MatchStarts(pattern, ToLowerCase(s)) # {}

\* s.match(pattern)[0] for a pattern with the g flag that matches
FirstMatch(s, pattern) ==
    The({ The({ SubSeq(s, i, i + MatchLength(pattern, l, i) - 1)
                : i \in {Min(MatchStarts(pattern, l))} })
          : l \in {ToLowerCase(s)} })


-----------------------------------------------------------------------------
(* sanitizeTextContent (src/lib/sanitization.ts)                            *)

\* the loop of cleanText over dangerousPatterns, from pattern number k on
RECURSIVE CleanPatterns(_, _, _, _)
CleanPatterns(k, cleaned, fieldName, warnings) ==
    IF k > Len(dangerousPatterns) THEN [cleaned |-> cleaned, warnings |-> warnings]
    ELSE LET pattern == dangerousPatterns[k] IN
         IF Matches(cleaned, pattern)
         THEN CleanPatterns(k + 1, Replace(cleaned, pattern, ""), fieldName,
                  Append(warnings,
                      "Removed dangerous content from " \o fieldName \o ": " \o
                      Substring0(FirstMatch(cleaned, pattern), 50) \o "..."))
         ELSE CleanPatterns(k + 1, cleaned, fieldName, warnings)

\* cleanText(text, fieldName): the text returned, the warnings pushed and whether
\* it set changed
cleanText(text, fieldName) ==
    The({ The({ [ text |-> trimmed,
                  warnings |-> r.warnings,
                  changed |-> r.warnings # << >> \/ trimmed # text ]
                : trimmed \in {Trim(CollapseSpaces(r.cleaned))} })
          : r \in {CleanPatterns(1, text, fieldName, << >>)} })

FeatureField(i, field) == "features[" \o ToString(i - 1) \o "]." \o field

\* the concatenation of the sequences seqs[1], ..., seqs[n]
Flatten(seqs) ==
    LET upTo[i \in 0..Len(seqs)] == IF i = 0 THEN << >> ELSE upTo[i - 1] \o seqs[i]
    IN  upTo[Len(seqs)]

\* the fields cleanText is applied to, in the order of the calls
TextFields(config) ==
    << [text |-> config.name, name |-> "name"],
       [text |-> config.description, name |-> "description"],
       [text |-> config.pages.home.hero.title, name |-> "hero.title"],
       [text |-> config.pages.home.hero.subtitle, name |-> "hero.subtitle"] >> \o
    Flatten([i \in 1..Len(config.pages.home.features) |->
        << [text |-> config.pages.home.features[i].title, name |-> FeatureField(i, "title")],
           [text |-> config.pages.home.features[i].description,
            name |-> FeatureField(i, "description")] >>])

\* r[k] is the outcome of cleanText on the k-th field
sanitizeTextContent(config) ==
    The({ [ config |->
              [config EXCEPT
                  !.name = r[1].text,
                  !.description = r[2].text,
                  !.pages.home.hero.title = r[3].text,
                  !.pages.home.hero.subtitle = r[4].text,
                  !.pages.home.features =
                      [i \in 1..Len(@) |->
                          [@[i] EXCEPT !.title = r[4 + 2 * i - 1].text,
                                       !.description = r[4 + 2 * i].text]]],
            changed |-> \E k \in 1..Len(r) : r[k].changed,
            warnings |-> Flatten([k \in 1..Len(r) |-> r[k].warnings]) ]
          : r \in {[k \in 1..Len(TextFields(config)) |->
                       cleanText(TextFields(config)[k].text, TextFields(config)[k].name)]} })

-----------------------------------------------------------------------------
(* sanitizeUrls (src/lib/sanitization.ts)                                   *)

\* options.maxUrlLength || 200
DefaultMaxUrlLength == 200

SanitizationOptions(allowExternalLinks, maxUrlLength, allowedDomains) ==
    [ allowExternalLinks |-> allowExternalLinks,
      maxUrlLength |-> maxUrlLength,
      allowedDomains |-> allowedDomains ]

NoOptions == SanitizationOptions(None, None, None)

\* x ?? d and, for an array, x || d: only an absent x is replaced
OrIfAbsent(o, d) == IF IsSome(o) THEN Get(o) ELSE d

\* seq.includes(x)
SeqIncludes(seq, x) == \E i \in 1..Len(seq) : seq[i] = x

\* url.match(/^(javascript|vbscript|data):/i)
DangerousProtocol(url) ==
    LET l == ToLowerCase(url)
    IN  StartsWith(l, "javascript:") \/ StartsWith(l, "vbscript:") \/ StartsWith(l, "data:")

UrlResult(url, warnings, changed) ==
    [url |-> url, warnings |-> warnings, changed |-> changed, threw |-> FALSE]

\* validateUrl(url, fieldName); threw when new URL(url) throws
validateUrl(url, fieldName, options) ==
    LET maxUrlLength       == OrDefault(options.maxUrlLength, DefaultMaxUrlLength)
        allowExternalLinks == OrIfAbsent(options.allowExternalLinks, TRUE)
        allowedDomains     == OrIfAbsent(options.allowedDomains, << >>)
    IN  IF DangerousProtocol(url)
        THEN UrlResult("/", << "Removed dangerous protocol from " \o fieldName >>, TRUE)
        ELSE IF StartsWith(url, "http") /\ ~allowExternalLinks
        THEN UrlResult("/", << "Converted external link to internal: " \o fieldName >>, TRUE)
        ELSE IF StartsWith(url, "http") /\ Len(allowedDomains) > 0
        THEN The({ IF ~parsed.ok
                   THEN [url |-> url, warnings |-> << >>, changed |-> FALSE, threw |-> TRUE]
                   ELSE IF ~SeqIncludes(allowedDomains, parsed.hostname)
                   THEN UrlResult("/", << "Blocked non-whitelisted domain: " \o
                                          parsed.hostname >>, TRUE)
                   ELSE IF Len(url) > maxUrlLength
                   THEN UrlResult(Substring0(url, maxUrlLength),
                                  << "Truncated long URL in " \o fieldName >>, TRUE)
                   ELSE UrlResult(url, << >>, FALSE)
                   : parsed \in {ParseURL(url)} })
        ELSE IF Len(url) > maxUrlLength
        THEN UrlResult(Substring0(url, maxUrlLength),
                       << "Truncated long URL in " \o fieldName >>, TRUE)
        ELSE IF ~StartsWith(url, "/") /\ ~StartsWith(url, "http")
        THEN UrlResult("/" \o url, << >>, FALSE)
        ELSE UrlResult(url, << >>, FALSE)

\* hero.cta?.<which>?.href is truthy
HasHref(hero, which) ==
    /\ IsSome(hero.cta)
    /\ IsSome(Get(hero.cta)[which])
    /\ Get(Get(hero.cta)[which]).href # ""

\* the secondary href is validated only when the primary one did not throw;
\* an href is assigned when its validateUrl call returned
sanitizeUrls(config, options) ==
    LET hero == config.pages.home.hero
        hasP == HasHref(hero, "primary")
        hasQ == HasHref(hero, "secondary")
    IN  The({ [ config |->
                  [config EXCEPT !.pages.home.hero =
                      IF p.threw THEN @
                      ELSE [@ EXCEPT !.cta =
                               IF IsSome(@)
                               THEN Some([Get(@) EXCEPT
                                       !.primary = IF hasP
                                                   THEN Some([Get(@) EXCEPT !.href = p.url])
                                                   ELSE @,
                                       !.secondary = IF hasQ /\ ~q.threw
                                                     THEN Some([Get(@) EXCEPT !.href = q.url])
                                                     ELSE @])
                               ELSE @]],
                threw |-> p.threw \/ q.threw,
                changed |-> p.changed \/ q.changed,
                warnings |-> p.warnings \o q.warnings ]
              : p \in {IF hasP
                       THEN validateUrl(Get(Get(hero.cta).primary).href,
                                        "hero.cta.primary.href", options)
                       ELSE UrlResult("", << >>, FALSE)},
                q \in {IF hasQ
                       THEN validateUrl(Get(Get(hero.cta).secondary).href,
                                        "hero.cta.secondary.href", options)
                       ELSE UrlResult("", << >>, FALSE)} })

-----------------------------------------------------------------------------
(* enforceCharacterLimits (src/lib/sanitization.ts)                         *)

truncateField(text, maxLength, fieldName) ==
    IF Len(text) > maxLength
    THEN [ text |-> Trim(Substring0(text, maxLength)),
           warnings |-> << "Truncated " \o fieldName \o " from " \o ToString(Len(text)) \o
                           " to " \o ToString(maxLength) \o " characters" >>,
           changed |-> TRUE ]
    ELSE [ text |-> text, warnings |-> << >>, changed |-> FALSE ]

Untouched(text) == [text |-> text, warnings |-> << >>, changed |-> FALSE]

\* hero.cta?.<which>?.text is truthy
HasCtaText(hero, which) ==
    /\ IsSome(hero.cta)
    /\ IsSome(Get(hero.cta)[which])
    /\ Get(Get(hero.cta)[which]).text # ""

WithCtaText(hero, which, text) ==
    [hero EXCEPT !.cta = Some([Get(@) EXCEPT ![which] = Some([Get(@) EXCEPT !.text = text])])]

\* the icon step of the feature loop, for feature number i (1-based here)
TruncateIcon(icon, i) ==
    IF IsSome(icon) /\ Get(icon) # "" /\ Len(Get(icon)) > 10
    THEN [ icon |-> Some(Substring0(Get(icon), 10)),
           warnings |-> << "Truncated feature[" \o ToString(i - 1) \o "].icon to 10 characters" >>,
           changed |-> TRUE ]
    ELSE [ icon |-> icon, warnings |-> << >>, changed |-> FALSE ]

enforceCharacterLimits(config) ==
    LET hero0  == config.pages.home.hero
        feats  == config.pages.home.features
        about  == config.pages.about
        contact == config.pages.contact
        name   == truncateField(config.name, 100, "name")
        desc   == truncateField(config.description, 200, "description")
        title  == truncateField(hero0.title, 60, "hero.title")
        sub    == truncateField(hero0.subtitle, 300, "hero.subtitle")
        hero1  == [hero0 EXCEPT !.title = title.text, !.subtitle = sub.text]
        pt     == IF HasCtaText(hero1, "primary")
                  THEN truncateField(Get(Get(hero1.cta).primary).text, 50,
                                     "hero.cta.primary.text")
                  ELSE Untouched("")
        hero2  == IF HasCtaText(hero1, "primary") THEN WithCtaText(hero1, "primary", pt.text)
                  ELSE hero1
        st     == IF HasCtaText(hero2, "secondary")
                  THEN truncateField(Get(Get(hero2.cta).secondary).text, 50,
                                     "hero.cta.secondary.text")
                  ELSE Untouched("")
        hero3  == IF HasCtaText(hero2, "secondary") THEN WithCtaText(hero2, "secondary", st.text)
                  ELSE hero2
        ft     == [i \in 1..Len(feats) |->
                      truncateField(feats[i].title, 50, FeatureField(i, "title"))]
        fd     == [i \in 1..Len(feats) |->
                      truncateField(feats[i].description, 120, FeatureField(i, "description"))]
        fi     == [i \in 1..Len(feats) |-> TruncateIcon(feats[i].icon, i)]
        hasBlurb == IsSome(about) /\ IsSome(Get(about).blurb) /\ Get(Get(about).blurb) # ""
        blurb  == IF hasBlurb THEN truncateField(Get(Get(about).blurb), 500, "about.blurb")
                  ELSE Untouched("")
        hasEmail == /\ IsSome(contact) /\ IsSome(Get(contact).emailPlaceholder)
                    /\ Get(Get(contact).emailPlaceholder) # ""
        email  == IF hasEmail
                  THEN truncateField(Get(Get(contact).emailPlaceholder), 100,
                                     "contact.emailPlaceholder")
                  ELSE Untouched("")
    IN  [ config |->
            [config EXCEPT
                !.name = name.text,
                !.description = desc.text,
                !.pages.home.hero = hero3,
                !.pages.home.features =
                    [i \in 1..Len(feats) |->
                        [ icon |-> fi[i].icon, title |-> ft[i].text,
                          description |-> fd[i].text ]],
                !.pages.about =
                    IF hasBlurb THEN Some([Get(@) EXCEPT !.blurb = Some(blurb.text)]) ELSE @,
                !.pages.contact =
                    IF hasEmail THEN Some([Get(@) EXCEPT !.emailPlaceholder = Some(email.text)])
                    ELSE @],
          changed |->
            \/ name.changed \/ desc.changed \/ title.changed \/ sub.changed
            \/ pt.changed \/ st.changed \/ blurb.changed \/ email.changed
            \/ \E i \in 1..Len(feats) : ft[i].changed \/ fd[i].changed \/ fi[i].changed,
          warnings |->
            name.warnings \o desc.warnings \o title.warnings \o sub.warnings \o
            pt.warnings \o st.warnings \o
            Flatten([i \in 1..Len(feats) |-> ft[i].warnings \o fd[i].warnings \o fi[i].warnings])
            \o blurb.warnings \o email.warnings ]

-----------------------------------------------------------------------------
(* sanitizeSiteConfig (src/lib/sanitization.ts)                             *)

\* The heap is a sequence of object graphs: heap[ref] is the value of the
\* configuration whose root object is ref, and the objects and arrays of two
\* graphs are disjoint. The three phases assign strings only, so no object of
\* one graph ever becomes reachable from another.

\* sanitized = config, without the copy: the phases then write into the
\* caller's own objects
ShareInput(heap, config) == [heap |-> heap, ref |-> config]

\* JSON.parse(JSON.stringify(config)): every object and array of the result is
\* newly allocated; a configuration is a tree of strings, arrays and objects
\* whose absent properties stay absent, so the copy has the value of the
\* original
DeepClone(heap, config) ==
    [heap |-> Append(heap, heap[config]), ref |-> Len(heap) + 1]

\* The outcome of a call on the object graph config: the result object
\* returned (the graph it refers to as object, its value at the return as
\* sanitized), or threw when the exception of new URL(url) leaves the
\* function; heap is the heap the call leaves behind
sanitizeSiteConfig(heap, config, options) ==
    The({ The({ The({ The({
        IF urls.threw
        THEN [ threw |-> TRUE, sanitized |-> None, object |-> clone.ref,
               warnings |-> << >>, changed |-> FALSE,
               heap |-> [clone.heap EXCEPT ![clone.ref] = urls.config] ]
        ELSE [ threw |-> FALSE,
               sanitized |-> Some(limits.config),
               object |-> clone.ref,
               warnings |-> (IF text.changed THEN text.warnings ELSE << >>) \o
                            (IF urls.changed THEN urls.warnings ELSE << >>) \o
                            (IF limits.changed THEN limits.warnings ELSE << >>),
               changed |-> text.changed \/ urls.changed \/ limits.changed,
               heap |-> [clone.heap EXCEPT ![clone.ref] = limits.config] ]
        : limits \in {enforceCharacterLimits(urls.config)} })
        : urls \in {sanitizeUrls(text.config, options)} })
        : text \in {sanitizeTextContent(clone.heap[clone.ref])} })
        : clone \in {DeepClone(heap, config)} })

\* what the caller holds after the call: the call's outcome without the heap
Returned(r) ==
    [ threw |-> r.threw, sanitized |-> r.sanitized, object |-> r.object,
      warnings |-> r.warnings, changed |-> r.changed ]

-----------------------------------------------------------------------------
(* Calls of sanitizeSiteConfig: a configuration and an options object are   *)
(* chosen, the configuration is sanitized, and the sanitized object is      *)
(* sanitized again under the same options.                                  *)

PaddedDescription == Repeat("a", 119) \o " " \o Repeat("b", 80)

SanFeatures ==
    { BaseFeatures,
      << Feature(None, "Fast", Repeat("a", 200)) >>,
      << Feature(None, "Fast", PaddedDescription) >>,
      << Feature(Some("rocket-icon"), "Fast", "Quick delivery.") >>,
      << Feature(Some("*"), Repeat("t", 51), "Quick delivery."),
         Feature(None, "<b onclick=\"x\">Bold</b>", "See <iframe src=\"x\"></iframe> here") >> }

SanHrefs ==
    { "/contact", "about", "https://example.com/start", "https://evil.example.org/x",
      "httpfoo", "javascript:alert(1)", "JavaScript:void(0)", "data:text/html,x",
      "contact-us-today-and-get-started", "https://example.com/" \o Repeat("p", 200) }

SanConfigs ==
    { BaseConfig,
      WithName(BaseConfig, "Studio javajavascript:script:alert"),
      WithName(BaseConfig, "<script>alert(1)</script>Studio"),
      WithName(BaseConfig, Repeat("n", 101)),
      WithName(BaseConfig, Repeat("n", 98) \o " data:x"),
      WithDescription(BaseConfig, "  Design   studio  "),
      WithDescription(BaseConfig, Repeat("d", 201)),
      WithHeroTitle(BaseConfig, Repeat("h", 61)),
      WithHeroSubtitle(BaseConfig, Repeat("s", 301)),
      WithCta(BaseConfig, Some(CTA(Repeat("c", 51), "/start")), None),
      WithCta(BaseConfig, Some(CTA("Start", "/start")), Some(CTA("More", "about"))),
      WithCta(BaseConfig, None, Some(CTA("", ""))),
      WithAbout(BaseConfig, Some(Hero(Repeat("h", 61), "About us")), Some(Repeat("b", 501))),
      WithAbout(BaseConfig, None, Some("We are a studio.")),
      WithContact(BaseConfig, Some(Hero("Contact", Repeat("s", 301))), Some(Repeat("e", 101))),
      WithServices(BaseConfig, Some(Hero("Services", "What we do")),
          Some(<< Service(Repeat("t", 51), "Design work", None) >>)),
      WithServices(BaseConfig, None,
          Some(<< Service("Design", Repeat("d", 201), Some(<< Repeat("f", 101) >>)) >>)) }
    \cup { WithFeatures(BaseConfig, fs) : fs \in SanFeatures }
    \cup { WithCta(BaseConfig, Some(CTA("Start", h)), None) : h \in SanHrefs }

\* a maxUrlLength below the hrefs chosen, so that truncation happens
ShortUrlLength == 20

SanOptionSets ==
    { NoOptions,
      SanitizationOptions(Some(FALSE), None, None),
      SanitizationOptions(Some(TRUE), Some(0), Some(<< >>)),
      SanitizationOptions(None, Some(ShortUrlLength), None),
      SanitizationOptions(None, None, Some(<< "example.com" >>)),
      SanitizationOptions(Some(TRUE), Some(ShortUrlLength), Some(<< "example.com" >>)) }

InitSanitize ==
    /\ sanPc = "ready"
    /\ sanInput \in SanConfigs
    /\ sanHeap = << sanInput >>
    /\ sanOptions \in SanOptionSets
    /\ sanFirst = None
    /\ sanSecond = None
    /\ McpIdle /\ PvIdle /\ CliIdle /\ WhIdle /\ ValIdle /\ FnIdle /\ SynIdle /\ TsIdle /\ FwrIdle

\* result = sanitizeSiteConfig(config, options)
Sanitize ==
    /\ sanPc = "ready"
    /\ \E r \in {sanitizeSiteConfig(sanHeap, 1, sanOptions)} :
          /\ sanFirst' = Some(Returned(r))
          /\ sanHeap' = r.heap
    /\ sanPc' = "once"
    /\ UNCHANGED <<sanInput, sanOptions, sanSecond>>
    /\ UNCHANGED <<mcpVars, pvVars, cliVars, whVars, valVars, fnVars, synVars, tsVars, fwrVars>>

\* sanitizeSiteConfig(result.sanitized, options)
SanitizeAgain ==
    /\ sanPc = "once"
    /\ ~Get(sanFirst).threw
    /\ \E r \in {sanitizeSiteConfig(sanHeap, Get(sanFirst).object, sanOptions)} :
          /\ sanSecond' = Some(Returned(r))
          /\ sanHeap' = r.heap
    /\ sanPc' = "twice"
    /\ UNCHANGED <<sanInput, sanOptions, sanFirst>>
    /\ UNCHANGED <<mcpVars, pvVars, cliVars, whVars, valVars, fnVars, synVars, tsVars, fwrVars>>

NextSanitize == Sanitize \/ SanitizeAgain

SpecSanitize == InitSanitize /\ [][NextSanitize]_vars


\* the first and the second result object, when the call returned one
SanitizedOnce == sanPc \in {"once", "twice"} /\ ~Get(sanFirst).threw
FirstSanitized == Get(Get(sanFirst).sanitized)

(* C6: sanitization is idempotent: sanitizing the sanitized object again     *)
(* under the same options returns an object equal to it and reports          *)
(* changed=false.                                                            *)
C6_Idempotent ==
    sanPc = "twice" =>
        /\ ~Get(sanSecond).threw
        /\ Get(sanSecond).sanitized = Get(sanFirst).sanitized
        /\ ~Get(sanSecond).changed

\* the fields of a page hero that have a schema maximum
HeroBounded(hero) ==
    IF IsSome(hero)
    THEN << [text |-> Get(hero).title, max |-> 60], [text |-> Get(hero).subtitle, max |-> 300] >>
    ELSE << >>

OptionalBounded(o, max) == IF IsSome(o) THEN << [text |-> Get(o), max |-> max] >> ELSE << >>

CtaBounded(cta) ==
    IF IsSome(cta)
    THEN (IF IsSome(Get(cta).primary)
          THEN << [text |-> Get(Get(cta).primary).text, max |-> 50] >> ELSE << >>) \o
         (IF IsSome(Get(cta).secondary)
          THEN << [text |-> Get(Get(cta).secondary).text, max |-> 50] >> ELSE << >>)
    ELSE << >>

ServiceBounded(sv) ==
    << [text |-> sv.title, max |-> 50], [text |-> sv.description, max |-> 200] >> \o
    (IF IsSome(sv.features)
     THEN [k \in 1..Len(Get(sv.features)) |-> [text |-> Get(sv.features)[k], max |-> 100]]
     ELSE << >>)

\* every string field of c that has a schema maximum, with that maximum; the
\* sanitizer adds and removes no field, so the lists of a configuration and of
\* its sanitized object line up
BoundedFields(c) ==
    << [text |-> c.name, max |-> 100], [text |-> c.description, max |-> 200],
       [text |-> c.pages.home.hero.title, max |-> 60],
       [text |-> c.pages.home.hero.subtitle, max |-> 300] >> \o
    CtaBounded(c.pages.home.hero.cta) \o
    Flatten([i \in 1..Len(c.pages.home.features) |->
        << [text |-> c.pages.home.features[i].title, max |-> 50],
           [text |-> c.pages.home.features[i].description, max |-> 120] >> \o
        OptionalBounded(c.pages.home.features[i].icon, 10)]) \o
    (IF IsSome(c.pages.about)
     THEN HeroBounded(Get(c.pages.about).hero) \o OptionalBounded(Get(c.pages.about).blurb, 500)
     ELSE << >>) \o
    (IF IsSome(c.pages.contact)
     THEN HeroBounded(Get(c.pages.contact).hero) \o
          OptionalBounded(Get(c.pages.contact).emailPlaceholder, 100)
     ELSE << >>) \o
    (IF IsSome(c.pages.services)
     THEN HeroBounded(Get(c.pages.services).hero) \o
          (IF IsSome(Get(c.pages.services).services)
           THEN Flatten([i \in 1..Len(Get(Get(c.pages.services).services)) |->
                    ServiceBounded(Get(Get(c.pages.services).services)[i])])
           ELSE << >>)
     ELSE << >>)

\* a warning that gives the length before and the length after a truncation
CitesLengths(w, before, after) ==
    /\ StartsWith(w, "Truncated ")
    /\ Includes(w, " from " \o ToString(before) \o " to " \o ToString(after) \o " ")

(* C7: after sanitizeSiteConfig every string field that has a schema maximum *)
(* is within it (name, description, the hero of every page, CTA text,        *)
(* feature title, description and icon, about.blurb,                         *)
(* contact.emailPlaceholder, service title, description and feature          *)
(* strings), and every field that was cut to its maximum has a warning       *)
(* giving the length before and the length after.                            *)
C7_WithinLimits ==
    SanitizedOnce =>
        LET before == BoundedFields(sanInput)
            after  == BoundedFields(FirstSanitized)
        IN  \A k \in 1..Len(after) :
                /\ Len(after[k].text) <= after[k].max
                /\ (/\ Len(before[k].text) > before[k].max
                    /\ after[k].text = Substring0(before[k].text, before[k].max))
                   => \E i \in 1..Len(Get(sanFirst).warnings) :
                          CitesLengths(Get(sanFirst).warnings[i],
                                       Len(before[k].text), Len(after[k].text))

(* C8: changed is true if and only if the sanitized configuration differs    *)
(* from the input in some field, a CTA href included.                        *)
C8_ChangedIffRewritten ==
    SanitizedOnce => (Get(sanFirst).changed <=> FirstSanitized # sanInput)

(* C9: sanitizeSiteConfig never throws: for every configuration of the       *)
(* required shape, every options value and every CTA href it returns a       *)
(* result object.                                                            *)
C9_NeverThrows == sanPc \in {"once", "twice"} => ~Get(sanFirst).threw

(* C10: a feature description of 200 characters has length exactly 120       *)
(* after sanitization, and a warning for that field cites 120 as the new     *)
(* length.                                                                   *)
C10_DescriptionCutTo120 ==
    SanitizedOnce =>
        \A i \in 1..Len(sanInput.pages.home.features) :
            Len(sanInput.pages.home.features[i].description) = 200 =>
                /\ Len(FirstSanitized.pages.home.features[i].description) = 120
                /\ \E k \in 1..Len(Get(sanFirst).warnings) :
                       /\ Includes(Get(sanFirst).warnings[k], FeatureField(i, "description"))
                       /\ Includes(Get(sanFirst).warnings[k], " to 120 ")

(* C11: sanitizeSiteConfig leaves the caller's configuration unmodified:     *)
(* after a call, whether it returned or threw, the object graph it was       *)
(* handed has the value it had before, and the sanitized configuration       *)
(* returned is another object graph than the one handed in. This holds for   *)
(* the first call on the caller's object and for the second call on the      *)
(* first call's result.                                                      *)
C11_InputUnmodified ==
    /\ sanPc \in {"once", "twice"} =>
          /\ sanHeap[1] = sanInput
          /\ Get(sanFirst).object # 1
    /\ sanPc = "twice" =>
          /\ sanHeap[Get(sanFirst).object] = FirstSanitized
          /\ Get(sanSecond).object \notin {1, Get(sanFirst).object}

\* a call that rewrote fields of its working copy has returned
C11_Witness ==
    /\ sanPc = "once"
    /\ ~Get(sanFirst).threw
    /\ Get(sanFirst).changed
    /\ FirstSanitized # sanInput
    /\ sanHeap[1] = sanInput
    /\ sanHeap[Get(sanFirst).object] = FirstSanitized


-----------------------------------------------------------------------------
(* POST /api/preview (src/pages/api/preview.ts)                             *)

\* body.prompt.length > 2000
PreviewMaxPromptLength == 2000

\* heroTitle.split(/\s+/).length: one more than the number of runs of white space
WordCount(s) == Cardinality({i \in 1..Len(s) : IsSpace(At(s, i)) /\ ~IsSpace(At(s, i - 1))}) + 1

\* validateContentLimits (lib/schemas.ts); the texts write <= for the sign of
\* the source
validateContentLimits(config) ==
    LET heroTitle == config.pages.home.hero.title
        feats     == config.pages.home.features
        long      == SelectSeq([i \in 1..Len(feats) |-> i],
                               LAMBDA i : Len(feats[i].description) > 120)
        warnings  ==
            (IF WordCount(heroTitle) > 8
             THEN << "Hero title has " \o ToString(WordCount(heroTitle)) \o
                     " words (recommended: <=8 words)" >>
             ELSE << >>) \o
            [k \in 1..Len(long) |->
                "Feature " \o ToString(long[k]) \o " description is " \o
                ToString(Len(feats[long[k]].description)) \o
                " chars (recommended: <=120 chars)"]
    IN  [valid |-> warnings = << >>, warnings |-> warnings]

\* the errors of a failed safeParse as one text: path and code of each issue
IssuesText(issues) ==
    LET upTo[i \in 0..Len(issues)] ==
            IF i = 0 THEN ""
            ELSE (IF i = 1 THEN "" ELSE upTo[i - 1] \o "; ") \o
                 issues[i].path \o ": " \o issues[i].code
    IN  upTo[Len(issues)]

ParseResult(success, data, error) == [success |-> success, data |-> data, error |-> error]

\* parseAndValidateLLMResponse (lib/llm-client.ts) on a response whose content
\* holds no JSON (<<>>) or the JSON text of the object in content
parseAndValidateLLMResponse(content) ==
    IF ~IsSome(content)
    THEN ParseResult(FALSE, None, "No valid JSON found in LLM response")
    ELSE The({ IF issues # << >>
               THEN ParseResult(FALSE, None, IssuesText(issues))
               ELSE ParseResult(TRUE, content, "")
               : issues \in {SiteConfigSchema(Get(content))} })

\* generateSiteConfig (lib/mcp-client.ts, last definition) with MCP enabled:
\* json is the body the server answered with, <<>> when the request failed or
\* the body is no JSON
generateSiteConfig(prompt, json) ==
    IF prompt = "" \/ Len(Trim(prompt)) = 0 THEN Failure("Prompt is required")
    ELSE IF Len(prompt) > MaxPromptLength
    THEN Failure("Prompt is too long (max 1000 characters)")
    ELSE IF ~IsSome(json) THEN Failure("Schema validation failed")
    ELSE The({ IF issues # << >>
               THEN Failure("Schema validation failed: " \o IssuesText(issues))
               ELSE Success(Get(json))
               : issues \in {SiteConfigSchema(Get(json))} })

PreviewError(status, error) ==
    [ status |-> status, success |-> FALSE, error |-> Some(error),
      config |-> None, validationResult |-> None ]

\* lines 116-180: the response built from parseResult
PreviewResponse(parseResult) ==
    IF parseResult.success /\ IsSome(parseResult.data)
    THEN The({ [ status |-> 200,
                 success |-> TRUE,
                 error |-> None,
                 config |-> parseResult.data,
                 validationResult |->
                     Some([ schemaValid |-> TRUE,
                            contentValid |-> content.valid,
                            securityValid |-> security.valid,
                            warnings |-> content.warnings,
                            errors |-> security.errors ]) ]
               : content \in {validateContentLimits(Get(parseResult.data))},
                 security \in {validateSecurityConstraints(Get(parseResult.data))} })
    ELSE [ status |-> IF parseResult.success THEN 200 ELSE 400,
           success |-> parseResult.success,
           error |-> None,
           config |-> None,
           validationResult |->
               Some([ schemaValid |-> FALSE, contentValid |-> FALSE,
                      securityValid |-> FALSE, warnings |-> << >>,
                      errors |-> << parseResult.error >> ]) ]

PreviewPrompts ==
    { "", "  ", Repeat("a", PreviewMaxPromptLength + 1), Repeat("a", MaxPromptLength + 1),
      "Create a portfolio site for Creative Studio",
      "Build a site for \"Secret Garden\" with a contact page" }

\* what the generator (the MCP server, or the LLM) may answer with
GeneratedConfigs ==
    RemoteConfigs \cup
    { WithName(BaseConfig, "Secret Garden"),
      WithDescription(BaseConfig, "Reset your password here"),
      WithHeroTitle(BaseConfig, "One two three four five six seven eight nine"),
      WithHeroSubtitle(BaseConfig, "Token exchange made easy"),
      WithFeatures(BaseConfig, << Feature(None, "Fast", Repeat("d", 121)) >>) }

GeneratedContents == {None} \cup {Some(c) : c \in GeneratedConfigs}

InitPreview ==
    /\ pvPc = "idle" /\ pvRequest = None /\ pvResponse = None
    /\ McpIdle /\ CliIdle /\ WhIdle /\ SanIdle /\ ValIdle /\ FnIdle /\ SynIdle /\ TsIdle /\ FwrIdle

\* POST: one request, from the body to the Response returned
PreviewPOST(prompt, isMcpEnabled, generated) ==
    /\ pvPc = "idle"
    /\ pvRequest' = Some([prompt |-> prompt, isMcpEnabled |-> isMcpEnabled,
                          generated |-> generated])
    /\ pvResponse' = Some(
          IF Len(Trim(prompt)) = 0 THEN PreviewError(400, "Prompt is required")
          ELSE IF Len(prompt) > PreviewMaxPromptLength
          THEN PreviewError(400, "Prompt too long (max 2000 characters)")
          ELSE IF isMcpEnabled
          THEN The({ IF ~mcp.success \/ ~IsSome(mcp.data)
                     THEN PreviewError(502, IF mcp.error # "" THEN mcp.error
                                            ELSE "MCP generation failed")
                     ELSE PreviewResponse(ParseResult(TRUE, mcp.data, ""))
                     : mcp \in {generateSiteConfig(prompt, generated)} })
          ELSE PreviewResponse(parseAndValidateLLMResponse(generated)))
    /\ pvPc' = "done"
    /\ UNCHANGED <<mcpVars, cliVars, whVars, sanVars, valVars, fnVars, synVars, tsVars, fwrVars>>

NextPreview ==
    \E prompt \in PreviewPrompts, isMcpEnabled \in BOOLEAN, generated \in GeneratedContents :
        PreviewPOST(prompt, isMcpEnabled, generated)

SpecPreview == InitPreview /\ [][NextPreview]_vars

(* C2: POST /api/preview answers success=true / HTTP 200 with the            *)
(* configuration in the body only if that configuration passed the security  *)
(* check: when validateSecurityConstraints reports valid=false the response  *)
(* is a failure and carries no configuration.                                *)
C2_AcceptedPassedSecurity ==
    (pvPc = "done" /\ IsSome(Get(pvResponse).config)) =>
        validateSecurityConstraints(Get(Get(pvResponse).config)).valid

-----------------------------------------------------------------------------
(* scripts/mcp-cli.ts: one run of main()                                    *)

CLIOptions(prompt, config, validate, generatePages, dry) ==
    [ prompt |-> prompt, config |-> config, validate |-> validate,
      generatePages |-> generatePages, dry |-> dry ]

CliOptionSets ==
    { CLIOptions(prompt, config, validate, generatePages, dry) :
        prompt \in {None, Some("Portfolio for Creative Studio")},
        config \in {None, Some("site.config.json")},
        validate \in BOOLEAN, generatePages \in BOOLEAN, dry \in BOOLEAN }

\* what the awaited generator returns: both generators hand back the value of
\* the schema-checked response, or a failure
GenerationResults == {Failure("fetch failed")} \cup {ResponseResult(b) : b \in OkBodies}

\* the file named by --config: absent, or its content, which is no JSON text
\* (<<>>) or the JSON text of an object
ConfigFile(exists, content) == [exists |-> exists, content |-> content]
ConfigFiles ==
    { ConfigFile(FALSE, None), ConfigFile(TRUE, None) }
    \cup { ConfigFile(TRUE, Some(c)) : c \in RemoteConfigs }

Effect(effect, config) == [effect |-> effect, config |-> config]

InitCli ==
    /\ cliPc = "start" /\ cliOptions = None /\ cliSiteConfig = None
    /\ cliEffects = << >>
    /\ McpIdle /\ PvIdle /\ WhIdle /\ SanIdle /\ ValIdle /\ FnIdle /\ SynIdle /\ TsIdle /\ FwrIdle

\* lines 118-157: parseArgs and the MCP configuration
main(options) ==
    /\ cliPc = "start"
    /\ cliOptions' = Some(options)
    /\ cliPc' = "prompt"
    /\ UNCHANGED <<cliSiteConfig, cliEffects>>
    /\ UNCHANGED <<mcpVars, pvVars, whVars, sanVars, valVars, fnVars, synVars, tsVars, fwrVars>>

\* lines 158-192: if (options.prompt), with the awaited result of the generator
GenerateFromPrompt(result) ==
    /\ cliPc = "prompt"
    /\ IF ~IsSome(Get(cliOptions).prompt)
       THEN cliPc' = "config" /\ UNCHANGED <<cliSiteConfig, cliEffects>>
       ELSE IF ~result.success
       THEN cliPc' = "exit1" /\ UNCHANGED <<cliSiteConfig, cliEffects>>
       ELSE /\ cliSiteConfig' = result.data
            /\ cliEffects' = IF ~Get(cliOptions).dry
                             THEN Append(cliEffects, Effect("writeFileSync", Get(result.data)))
                             ELSE cliEffects
            /\ cliPc' = "config"
    /\ UNCHANGED cliOptions
    /\ UNCHANGED <<mcpVars, pvVars, whVars, sanVars, valVars, fnVars, synVars, tsVars, fwrVars>>

\* lines 195-204: if (options.config); JSON.parse throws into the catch of main
LoadConfigFile(file) ==
    /\ cliPc = "config"
    /\ IF ~IsSome(Get(cliOptions).config)
       THEN cliPc' = "validate" /\ UNCHANGED cliSiteConfig
       ELSE IF ~file.exists \/ ~IsSome(file.content)
       THEN cliPc' = "exit1" /\ UNCHANGED cliSiteConfig
       ELSE cliSiteConfig' = file.content /\ cliPc' = "validate"
    /\ UNCHANGED <<cliOptions, cliEffects>>
    /\ UNCHANGED <<mcpVars, pvVars, whVars, sanVars, valVars, fnVars, synVars, tsVars, fwrVars>>

\* lines 207-229: if (options.validate && siteConfig)
ValidateConfiguration ==
    /\ cliPc = "validate"
    /\ cliPc' = IF /\ Get(cliOptions).validate /\ IsSome(cliSiteConfig)
                   /\ ~validateArtifact(Get(cliSiteConfig)).valid
                THEN "exit1" ELSE "pages"
    /\ UNCHANGED <<cliOptions, cliSiteConfig, cliEffects>>
    /\ UNCHANGED <<mcpVars, pvVars, whVars, sanVars, valVars, fnVars, synVars, tsVars, fwrVars>>

\* lines 232-258: if (options.generatePages && siteConfig); generateAllPages
\* (lib/page-generator.ts) writes the pages of the configuration it is given
GeneratePages ==
    /\ cliPc = "pages"
    /\ cliEffects' = IF /\ Get(cliOptions).generatePages /\ IsSome(cliSiteConfig)
                        /\ ~Get(cliOptions).dry
                     THEN Append(cliEffects, Effect("generateAllPages", Get(cliSiteConfig)))
                     ELSE cliEffects
    /\ cliPc' = "exit0"
    /\ UNCHANGED <<cliOptions, cliSiteConfig>>
    /\ UNCHANGED <<mcpVars, pvVars, whVars, sanVars, valVars, fnVars, synVars, tsVars, fwrVars>>

NextCli ==
    \/ \E options \in CliOptionSets : main(options)
    \/ \E result \in GenerationResults : GenerateFromPrompt(result)
    \/ \E file \in ConfigFiles : LoadConfigFile(file)
    \/ ValidateConfiguration
    \/ GeneratePages

SpecCli == InitCli /\ [][NextCli]_vars

(* C3: in the mcp-cli workflow, on every path (prompt, config file, with or  *)
(* without --validate), generateAllPages and the writing of the              *)
(* configuration file happen only for a configuration that passed the        *)
(* schema check.                                                             *)
C3_EffectsAfterSchemaCheck ==
    \A k \in 1..Len(cliEffects) : validateArtifact(cliEffects[k].config).valid


-----------------------------------------------------------------------------
(* verifyWebhookSignature (src/lib/mcp-client.ts) and the webhook endpoints *)

\* the secrets and the payload texts of the requests considered
WebhookSecrets == << "whsec-alpha", "whsec-beta" >>

WebhookPayload(text, json) == [text |-> text, json |-> json]
WebhookJson(event, type, config) == [event |-> event, type |-> type, config |-> config]

\* a hero title of nine words and 44 characters: within the schema's 60
WordyTitleConfig ==
    WithHeroTitle(BaseConfig, "One two three four five six seven eight nine")

WebhookPayloads ==
    << WebhookPayload("not json", None),
       WebhookPayload("validation.requested wordy", Some(WebhookJson(
           Some("validation.requested"), None, Some(WordyTitleConfig)))),
       WebhookPayload("generation.completed wordy", Some(WebhookJson(
           Some("generation.completed"), None, Some(WordyTitleConfig)))),
       WebhookPayload("validation.requested", Some(WebhookJson(
           Some("validation.requested"), None, Some(BaseConfig)))),
       WebhookPayload("generation.completed", Some(WebhookJson(
           Some("generation.completed"), None, Some(SecretNameConfig)))),
       WebhookPayload("generation.failed", Some(WebhookJson(
           Some("generation.failed"), None, None))),
       WebhookPayload("site-config-generated", Some(WebhookJson(
           None, Some("site-config-generated"), Some(BaseConfig)))),
       WebhookPayload("site-config-update", Some(WebhookJson(
           None, Some("site-config-update"), Some(LongNameConfig)))),
       WebhookPayload("ping", Some(WebhookJson(Some("ping"), Some("ping"), Some(BaseConfig)))) >>

\* the position of x in seq, 0 when absent
PositionIn(seq, x) ==
    IF \E i \in 1..Len(seq) : seq[i] = x THEN CHOOSE i \in 1..Len(seq) : seq[i] = x ELSE 0

\* crypto.createHmac("sha256", secret).update(payload, "utf8").digest("hex"):
\* 64 lower-case hex digits, fixed by the secret and the payload and different
\* for different pairs of them
HmacSha256Hex(secret, payload) ==
    Repeat(At("0123456789abcdef", PositionIn(WebhookSecrets, secret) + 1) \o
           At("0123456789abcdef",
              PositionIn([k \in 1..Len(WebhookPayloads) |-> WebhookPayloads[k].text],
                         payload) + 1),
           32)

\* signature.replace("sha256=", ""): the first occurrence goes
ReplaceFirst(s, pattern) ==
    IF Includes(s, pattern)
    THEN The({ Substring0(s, i - 1) \o SubstringFrom(s, i - 1 + Len(pattern))
               : i \in {Min({k \in 1..Len(s) : StartsWithAt(s, k, pattern)})} })
    ELSE s

\* Buffer.from(s, "hex"): the bytes of the pairs of hex digits up to the first
\* pair that is not two hex digits, each byte written as two lower-case digits
BufferFromHex(s) == ToLowerCase(Substring0(s, 2 * (RunLength(s, 1, IsHex) \div 2)))

\* FALSE also when the code throws into its catch: no secret, or
\* timingSafeEqual on buffers of different byte lengths
verifyWebhookSignature(payload, signature, secret) ==
    IF secret = "" THEN FALSE
    ELSE The({ IF Len(expected) # Len(provided) THEN FALSE ELSE expected = provided
               : expected \in {BufferFromHex(HmacSha256Hex(secret, payload))},
                 provided \in {BufferFromHex(ReplaceFirst(signature, "sha256="))} })


\* a request: the secret in the server's environment (<<>> when unset), whether
\* webhooks are enabled, the signature header (<<>> when absent), the body
WebhookRequest(endpoint, secret, enableWebhooks, signature, payload) ==
    [ endpoint |-> endpoint, secret |-> secret, enableWebhooks |-> enableWebhooks,
      signature |-> signature, payload |-> payload ]

\* the signature headers a sender holding senderSecret may attach to a body
SignatureHeaders(senderSecret, text) ==
    { None,
      Some(""),
      Some("sha256=" \o HmacSha256Hex(senderSecret, text)),
      Some(HmacSha256Hex(senderSecret, text)),
      Some("sha256=" \o HmacSha256Hex(senderSecret, text) \o "zz"),
      Some("sha256=" \o Substring0(HmacSha256Hex(senderSecret, text), 8)),
      Some("sha256=not-a-digest") }

ServerSecrets == { None, Some(""), Some(WebhookSecrets[1]) }

WebhookRequests(endpoint) ==
    UNION { { WebhookRequest(endpoint, secret, enableWebhooks, signature, WebhookPayloads[k]) :
                signature \in SignatureHeaders(WebhookSecrets[sender], WebhookPayloads[k].text) }
            : secret \in ServerSecrets, enableWebhooks \in BOOLEAN,
              sender \in 1..Len(WebhookSecrets), k \in 1..Len(WebhookPayloads) }

\* parsed: JSON.parse(body) was reached; processed: the payload was handled
WebhookResponse(status, error, parsed, processed, validation) ==
    [ status |-> status, error |-> error, parsed |-> parsed, processed |-> processed,
      validation |-> validation ]

Rejected(status, error) == WebhookResponse(status, error, FALSE, FALSE, None)

\* the validationResult of the content and the security checks on a configuration
ContentAndSecurity(config) ==
    The({ [ valid |-> content.valid /\ security.valid,
            warnings |-> content.warnings,
            errors |-> security.errors ]
          : content \in {validateContentLimits(config)},
            security \in {validateSecurityConstraints(config)} })

\* src/pages/api/webhook/llm.ts, lines 77-204: from JSON.parse to the Response
LlmWebhookProcess(payload) ==
    IF ~IsSome(payload.json) THEN WebhookResponse(400, "Invalid JSON payload", TRUE, FALSE, None)
    ELSE LET json  == Get(payload.json)
             event == IF IsSome(json.event) THEN Get(json.event) ELSE ""
         IN  IF event = "generation.completed"
             THEN WebhookResponse(200, "", TRUE, TRUE,
                      IF ~IsSome(json.config) THEN None
                      ELSE The({ IF parseResult.success
                                 THEN Some(ContentAndSecurity(Get(parseResult.data)))
                                 ELSE Some([ valid |-> FALSE, warnings |-> << >>,
                                             errors |-> << parseResult.error >> ])
                                 : parseResult \in {parseAndValidateLLMResponse(json.config)} }))
             ELSE IF event = "generation.failed"
             THEN WebhookResponse(200, "", TRUE, TRUE, None)
             ELSE IF event = "validation.requested"
             THEN WebhookResponse(200, "", TRUE, TRUE,
                      IF IsSome(json.config) THEN Some(ContentAndSecurity(Get(json.config)))
                      ELSE None)
             ELSE WebhookResponse(400, "Unknown event type: " \o event, TRUE, FALSE, None)

\* POST /api/webhook/llm
LlmWebhookPOST(req) ==
    /\ whPc = "idle"
    /\ req.endpoint = "/api/webhook/llm"
    /\ whRequest' = Some(req)
    /\ whResponse' = Some(
          IF ~IsSome(req.signature) \/ Get(req.signature) = ""
          THEN Rejected(401, "Missing webhook signature")
          ELSE IF /\ IsSome(req.secret) /\ Get(req.secret) # ""
                  /\ ~verifyWebhookSignature(req.payload.text, Get(req.signature),
                                             Get(req.secret))
          THEN Rejected(401, "Invalid webhook signature")
          ELSE LlmWebhookProcess(req.payload))
    /\ whPc' = "done"
    /\ UNCHANGED <<mcpVars, pvVars, cliVars, sanVars, valVars, fnVars, synVars, tsVars, fwrVars>>

\* src/pages/api/mcp-webhook.ts, lines 43-130: from JSON.parse to the Response
McpWebhookProcess(payload) ==
    IF ~IsSome(payload.json) THEN WebhookResponse(400, "Invalid JSON payload", TRUE, FALSE, None)
    ELSE LET json == Get(payload.json)
             type == IF IsSome(json.type) THEN Get(json.type) ELSE ""
         IN  IF type = "" \/ ~IsSome(json.config)
             THEN WebhookResponse(400, "Missing required fields: type, data", TRUE, FALSE, None)
             ELSE IF type = "site-config-generated"
             THEN WebhookResponse(200, "", TRUE, TRUE, Some(validateArtifact(Get(json.config))))
             ELSE IF type = "site-config-update"
             THEN The({ WebhookResponse(IF validation.valid THEN 200 ELSE 400,
                                        IF validation.valid THEN ""
                                        ELSE "Invalid site configuration",
                                        TRUE, TRUE, Some(validation))
                        : validation \in {validateArtifact(Get(json.config))} })
             ELSE WebhookResponse(400, "Unknown webhook type: " \o type, TRUE, FALSE, None)

\* POST /api/mcp-webhook
McpWebhookPOST(req) ==
    /\ whPc = "idle"
    /\ req.endpoint = "/api/mcp-webhook"
    /\ whRequest' = Some(req)
    /\ whResponse' = Some(
          IF ~req.enableWebhooks THEN Rejected(403, "Webhooks not enabled")
          ELSE IF ~IsSome(req.secret) \/ Get(req.secret) = ""
          THEN Rejected(500, "Webhook secret not configured")
          ELSE IF ~verifyWebhookSignature(req.payload.text,
                                          IF IsSome(req.signature) THEN Get(req.signature)
                                          ELSE "",
                                          Get(req.secret))
          THEN Rejected(401, "Invalid webhook signature")
          ELSE McpWebhookProcess(req.payload))
    /\ whPc' = "done"
    /\ UNCHANGED <<mcpVars, pvVars, cliVars, sanVars, valVars, fnVars, synVars, tsVars, fwrVars>>

InitWebhook ==
    /\ whPc = "idle" /\ whRequest = None /\ whResponse = None
    /\ McpIdle /\ PvIdle /\ CliIdle /\ SanIdle /\ ValIdle /\ FnIdle /\ SynIdle /\ TsIdle /\ FwrIdle

NextWebhook ==
    \/ \E req \in WebhookRequests("/api/webhook/llm") : LlmWebhookPOST(req)
    \/ \E req \in WebhookRequests("/api/mcp-webhook") : McpWebhookPOST(req)

SpecWebhook == InitWebhook /\ [][NextWebhook]_vars

(* C4: the webhook endpoints (POST /api/webhook/llm and POST                 *)
(* /api/mcp-webhook) parse and handle a payload only after the signature     *)
(* was verified against a configured secret; with the secret missing or      *)
(* empty the request is rejected and never processed.                        *)
C4_ProcessedOnlyVerified ==
    (whPc = "done" /\ Get(whResponse).parsed) =>
        /\ IsSome(Get(whRequest).secret)
        /\ Get(Get(whRequest).secret) # ""
        /\ IsSome(Get(whRequest).signature)
        /\ verifyWebhookSignature(Get(whRequest).payload.text,
                                  Get(Get(whRequest).signature),
                                  Get(Get(whRequest).secret))

(* C12: content-quality warnings are never fatal: in the validationResult    *)
(* that POST /api/webhook/llm builds for generation.completed and            *)
(* validation.requested, a configuration that passes the schema and the      *)
(* security checks is reported valid, whatever validateContentLimits warns   *)
(* about; the warnings are in the warnings list.                             *)
C12_WarningsNotFatal ==
    ( /\ whPc = "done"
      /\ Get(whRequest).endpoint = "/api/webhook/llm"
      /\ IsSome(Get(whResponse).validation)
      /\ validateArtifact(Get(Get(Get(whRequest).payload.json).config)).valid
      /\ validateSecurityConstraints(Get(Get(Get(whRequest).payload.json).config)).valid )
    => /\ Get(Get(whResponse).validation).valid
       /\ Get(Get(whResponse).validation).warnings =
              validateContentLimits(Get(Get(Get(whRequest).payload.json).config)).warnings

-----------------------------------------------------------------------------
(* The schema check and the security check on one candidate configuration    *)
(* (validateArtifact of src/lib/mcp-client.ts, validateSecurityConstraints   *)
(* of src/lib/schemas.ts)                                                    *)

\* a configuration with every optional part present, within every bound and
\* free of sensitive text
FullConfig ==
    [ name |-> "Test Company",
      description |-> "A business website",
      pages |->
        [ home |->
            [ hero |-> [ title |-> "Welcome to Test Company",
                         subtitle |-> "Services for you",
                         cta |-> Some([ primary |-> Some(CTA("Get Started", "/contact")),
                                        secondary |-> Some(CTA("Learn More", "/about")) ]) ],
              features |-> BaseFeatures ],
          about |-> Some([ hero |-> Some(Hero("About us", "Who we are")),
                           blurb |-> Some("A small team.") ]),
          contact |-> Some([ hero |-> None,
                             emailPlaceholder |-> Some("you@example.com") ]),
          services |-> Some([ hero |-> None,
                              services |-> Some(<< Service("Strategy", "Plans that work.",
                                                           Some(<< "Workshops" >>)) >>) ]) ],
      images |-> Some(<< [url |-> "https://example.com/logo.png", alt |-> "Logo"] >>) ]

\* the most schema violations built into one candidate
MaxDefects == 3
\* the most sensitive texts planted in one candidate
MaxPlants == 2

\* a schema violation: the path of the offending field and the kind of issue
Defect(path, code) == [path |-> path, code |-> code]

Defects ==
    { Defect("name", "too_big"),
      Defect("name", "too_small"),
      Defect("pages.home.hero.title", "too_big"),
      Defect("pages.home.hero.cta.primary.text", "too_big"),
      Defect("pages.home.features", "too_big"),
      Defect("pages.home.features", "too_small"),
      Defect("pages.home.features.0.title", "too_small"),
      Defect("pages.home.features.1.description", "too_big"),
      Defect("pages.contact.emailPlaceholder", "too_small"),
      Defect("images.0.url", "invalid_string") }

ExtraFeature == Feature(None, "More", "And more.")

\* the candidate c with the field of defect d set to a value that breaks its rule
Inflict(c, d) ==
    CASE d = Defect("name", "too_big") -> WithName(c, Repeat("x", 101))
      [] d = Defect("name", "too_small") -> WithName(c, "")
      [] d = Defect("pages.home.hero.title", "too_big") -> WithHeroTitle(c, Repeat("x", 61))
      [] d = Defect("pages.home.hero.cta.primary.text", "too_big") ->
            [c EXCEPT !.pages.home.hero.cta[1].primary[1].text = Repeat("x", 51)]
      [] d = Defect("pages.home.features", "too_big") ->
            WithFeatures(c, c.pages.home.features \o
                            [i \in 1..(7 - Len(c.pages.home.features)) |-> ExtraFeature])
      [] d = Defect("pages.home.features", "too_small") -> WithFeatures(c, << >>)
      [] d = Defect("pages.home.features.0.title", "too_small") ->
            [c EXCEPT !.pages.home.features[1].title = ""]
      [] d = Defect("pages.home.features.1.description", "too_big") ->
            [c EXCEPT !.pages.home.features[2].description = Repeat("x", 121)]
      [] d = Defect("pages.contact.emailPlaceholder", "too_small") ->
            [c EXCEPT !.pages.contact[1].emailPlaceholder = Some("")]
      [] d = Defect("images.0.url", "invalid_string") ->
            [c EXCEPT !.images[1][1].url = "not a url"]

\* the defects of a set are on distinct fields, and the fields exist
Compatible(D) ==
    /\ \A d, e \in D : d.path = e.path => d = e
    /\ Defect("pages.home.features", "too_small") \in D =>
           \A d \in D : ~StartsWithAt(d.path, 1, "pages.home.features.")

DefectSets == { D \in SUBSET Defects : Cardinality(D) <= MaxDefects /\ Compatible(D) }

\* a text planted in a field, with the sources of the patterns that match it
Plant(where, text, matches) == [where |-> where, text |-> text, matches |-> matches]

PlantList ==
    << Plant("name", "with API_KEY=secret123", {"api[_-]?key", "secret"}),
       Plant("subtitle", "api key", {}),
       Plant("subtitle", "PASSWORD", {"password"}),
       Plant("href", "tokens", {"token"}),
       Plant("href", "Private-Key", {"private[_-]?key"}),
       Plant("alt", "0123456789abcdef0123456789ABCDEF", {"[a-f0-9]{32,}"}),
       Plant("alt", "0123456789abcdef0123456789ABCDE", {}),
       Plant("alt", "top secret", {"secret"}) >>

Plants == { PlantList[i] : i \in 1..Len(PlantList) }

PlantSets == { P \in SUBSET Plants : Cardinality(P) <= MaxPlants }

\* the texts of P planted in one field, each after a space, in the order of PlantList
PlantedAt(P, where) ==
    LET upTo[i \in 0..Len(PlantList)] ==
            IF i = 0 THEN ""
            ELSE IF PlantList[i] \in P /\ PlantList[i].where = where
            THEN upTo[i - 1] \o " " \o PlantList[i].text
            ELSE upTo[i - 1]
    IN  upTo[Len(PlantList)]

Planted(c, P) ==
    [c EXCEPT !.name = @ \o PlantedAt(P, "name"),
              !.pages.home.hero.subtitle = @ \o PlantedAt(P, "subtitle"),
              !.pages.home.hero.cta[1].secondary[1].href = @ \o PlantedAt(P, "href"),
              !.images[1][1].alt = @ \o PlantedAt(P, "alt")]

\* the candidate: FullConfig with the texts of P planted and the defects of D inflicted
RECURSIVE Inflicted(_, _)
Inflicted(c, D) ==
    IF D = {} THEN c
    ELSE LET d == CHOOSE d \in D : TRUE IN Inflicted(Inflict(c, d), D \ {d})

Candidate(D, P) == Inflicted(Planted(FullConfig, P), D)

\* the candidates: defects alone, plants alone, or one of each on different fields
Candidates ==
    { <<D, P>> \in DefectSets \X PlantSets :
        \/ D = {}
        \/ P = {}
        \/ /\ Cardinality(D) = 1 /\ Cardinality(P) = 1
           /\ \A d \in D, p \in P : d.path # p.where }

InitValidate ==
    /\ \E cand \in Candidates :
        /\ valDefects = cand[1]
        /\ valPlants = cand[2]
        /\ valArtifact = Some(Candidate(cand[1], cand[2]))
    /\ valSchema = None /\ valSecurity = None
    /\ McpIdle /\ PvIdle /\ CliIdle /\ WhIdle /\ SanIdle /\ FnIdle /\ SynIdle /\ TsIdle /\ FwrIdle

\* await validateArtifact(candidate)
SchemaCheck ==
    /\ IsSome(valArtifact) /\ valSchema = None
    /\ valSchema' = Some(validateArtifact(Get(valArtifact)))
    /\ UNCHANGED <<valDefects, valPlants, valArtifact, valSecurity>>
    /\ UNCHANGED <<mcpVars, pvVars, cliVars, whVars, sanVars, fnVars, synVars, tsVars, fwrVars>>

\* validateSecurityConstraints(candidate)
SecurityCheck ==
    /\ IsSome(valArtifact) /\ valSecurity = None
    /\ valSecurity' = Some(validateSecurityConstraints(Get(valArtifact)))
    /\ UNCHANGED <<valDefects, valPlants, valArtifact, valSchema>>
    /\ UNCHANGED <<mcpVars, pvVars, cliVars, whVars, sanVars, fnVars, synVars, tsVars, fwrVars>>

NextValidate ==
    \/ SchemaCheck
    \/ SecurityCheck

SpecValidate == InitValidate /\ [][NextValidate]_vars

\* the issues of a finished schema check, as a set
ReportedIssues == { Get(valSchema).errors[k] : k \in 1..Len(Get(valSchema).errors) }

ExpectedPatterns == UNION { p.matches : p \in valPlants }

SecurityErrors == { Get(valSecurity).errors[k] : k \in 1..Len(Get(valSecurity).errors) }

(* C20: validateSecurityConstraints is a hard gate independent of the schema *)
(* outcome: it returns valid = false iff the serialized configuration        *)
(* matches at least one of the six sensitive patterns (case-insensitive),    *)
(* with one error per matching pattern that identifies the pattern, and      *)
(* valid = true with an empty error list otherwise; a configuration whose    *)
(* name is "Test Company with API_KEY=secret123" is reported invalid         *)
(* although it passes the schema check.                                      *)
C20_SecurityGate ==
    IsSome(valSecurity) =>
        /\ Get(valSecurity).valid <=> ExpectedPatterns = {}
        /\ Len(Get(valSecurity).errors) = Cardinality(ExpectedPatterns)
        /\ SecurityErrors =
               { "Potential sensitive data detected: pattern " \o p : p \in ExpectedPatterns }
        /\ ExpectedPatterns \subseteq
               { sensitivePatterns[k] : k \in 1..Len(sensitivePatterns) }

C20_Witness ==
    /\ IsSome(valArtifact)
    /\ Get(valArtifact).name = "Test Company with API_KEY=secret123"
    /\ IsSome(valSchema) /\ Get(valSchema).valid
    /\ IsSome(valSecurity) /\ ~Get(valSecurity).valid
    /\ Len(Get(valSecurity).errors) = 2

-----------------------------------------------------------------------------
(* Single calls of the pure functions of the pipeline: an input is chosen    *)
(* and the function is applied to it                                         *)

FunctionCall(fn, args) == [fn |-> fn, args |-> args]

Returns(value) == [threw |-> FALSE, value |-> value]
Throws(message) == [threw |-> TRUE, value |-> message]

\* hero titles around the limit of 8 words, all within the schema's 60 characters
\* but the empty one
ContentTitles ==
    { "Welcome to Creative Studio",
      "One two three four five six seven eight",
      "One two three four five six seven eight nine",
      "a b c d e f g h i j",
      "One  two three\tfour five six seven eight",
      " One two three four five six seven eight",
      "One two three four five six seven eight ",
      " a b c d e f g ",
      " ",
      "" }

ContentFeatureLists ==
    { BaseFeatures,
      << Feature(None, "Long", Repeat("d", 121)), BaseFeatures[1] >>,
      << BaseFeatures[1], Feature(None, "Long", Repeat("d", 121)) >>,
      << Feature(None, "Full", Repeat("d", 120)), Feature(None, "Longer", Repeat("d", 130)),
         Feature(None, "Long", Repeat("d", 121)) >>,
      << Feature(None, "Full", Repeat("d", 120)) >>,
      << >> }

ContentLimitsCalls ==
    { FunctionCall("validateContentLimits", WithFeatures(WithHeroTitle(BaseConfig, t), fs)) :
        t \in ContentTitles, fs \in ContentFeatureLists }

\* signatures a sender holding senderSecret may attach to a payload, for a
\* receiver holding the secret (the empty one included)
SignatureCalls ==
    { FunctionCall("verifyWebhookSignature",
                   [payload |-> WebhookPayloads[k].text, signature |-> Get(sig), secret |-> secret]) :
        k \in {1, 4},
        secret \in {"", WebhookSecrets[1]},
        sig \in UNION { SignatureHeaders(WebhookSecrets[sender], WebhookPayloads[4].text) \cup
                        { Some("SHA256=" \o HmacSha256Hex(WebhookSecrets[sender],
                                                          WebhookPayloads[4].text)),
                          Some("sha256=" \o Repeat("1D", 32)),
                          Some("xsha256=" \o HmacSha256Hex(WebhookSecrets[sender],
                                                           WebhookPayloads[4].text)) }
                        : sender \in 1..Len(WebhookSecrets) } \ {None} }

\* prompts whose name is quoted or follows "for", with articles, suffix words
\* and runs of white space in the name
NamePrompts ==
    { "Create a portfolio site for Design Co",
      "Create a portfolio site for Creative Studio",
      "a site called 'The Acme Co.' about us, contact",
      "Build a website for \"  Big \t  Sky  \"",
      "A fan site called \"The A Team\"",
      "Website for \"Acme Co Inc\"",
      "Site named 'An  Apple   Company'",
      "Portfolio for \"" \o LongName49 \o "\"",
      "Consulting for \"" \o LongName46 \o "\"",
      "Make a site for \"Al\"",
      "Make me a site" }

NameCalls == { FunctionCall("extractSiteName", p) : p \in NamePrompts }

\* createLLMRequest (src/lib/llm-client.ts, lines 134-175)

\* the longest user prompt createLLMRequest takes
MaxUserPromptLength == 2000

defaultSystemPrompt ==
    "You are an expert website generator specialized in creating production-ready Astro websites. \n" \o
    "Generate valid site configurations that strictly conform to the JSON schema.\n" \o
    "\n" \o
    "Rules:\n" \o
    "1. Return ONLY valid JSON that matches the schema\n" \o
    "2. Keep hero titles under 8 words (60 chars max)\n" \o
    "3. Keep feature descriptions under 120 characters\n" \o
    "4. Never include API keys, secrets, or sensitive data\n" \o
    "5. Use professional, business-appropriate language\n" \o
    "6. Always provide alt text for images\n" \o
    "7. Use placeholder contact information (no real data)\n" \o
    "\n" \o
    "Respond with a JSON object that validates against /site.config.schema.json"

\* sanitizeLLMContent(content): the four patterns removed in turn, then trim()
sanitizeLLMContent(content) ==
    Trim(Replace(Replace(Replace(Replace(content, llmPatterns[1], ""),
                                 llmPatterns[2], ""),
                         llmPatterns[3], ""),
                 llmPatterns[4], ""))

createLLMRequest(userPrompt) ==
    IF Trim(userPrompt) = "" THEN Throws("User prompt is required")
    ELSE IF Len(userPrompt) > MaxUserPromptLength
    THEN Throws("User prompt is too long (max 2000 characters)")
    ELSE Returns([ prompt |-> sanitizeLLMContent(userPrompt),
                   systemPrompt |-> defaultSystemPrompt,
                   options |-> [ model |-> "mock-gpt-4", temperature |-> "0.7",
                                 maxTokens |-> 2000, timeout |-> 30000 ] ])

\* user prompts: blank ones, ones at and over the length limit, ones that are
\* a removed pattern and nothing else, and ones with a pattern among other text
UserPrompts ==
    { "Create a portfolio site for Creative Studio",
      "", "   ", " \t\n",
      Repeat("a", MaxUserPromptLength), Repeat("a", MaxUserPromptLength + 1),
      "  a site for Bob  ",
      "javascript:",
      " JavaScript: ",
      "<script>alert(1)</script>",
      "<SCRIPT src=x>\n</script >",
      " onclick = 'go()'",
      "data:text/html,",
      "data:image/png;base64,AAAA",
      "data:image/bmp;base64,AAAA",
      "A site <script>x</script> for Bob, with onload=\"x\" and a javascript:void link",
      "Send data: weekly, monthly",
      "Focus on results = \"growth\"",
      "Button onclick=go" }

LlmCalls == { FunctionCall("createLLMRequest", p) : p \in UserPrompts }

FunctionCalls ==
    ContentLimitsCalls \cup SignatureCalls \cup NameCalls \cup LlmCalls

InitFunctions ==
    /\ fnCall \in { Some(c) : c \in FunctionCalls }
    /\ fnResult = None
    /\ McpIdle /\ PvIdle /\ CliIdle /\ WhIdle /\ SanIdle /\ ValIdle /\ SynIdle /\ TsIdle /\ FwrIdle

Calling(fn) == IsSome(fnCall) /\ Get(fnCall).fn = fn /\ fnResult = None
Called(fn) == IsSome(fnCall) /\ Get(fnCall).fn = fn /\ IsSome(fnResult)

\* validateContentLimits(config)
ContentLimitsCall ==
    /\ Calling("validateContentLimits")
    /\ fnResult' = Some(Returns(validateContentLimits(Get(fnCall).args)))
    /\ UNCHANGED fnCall
    /\ UNCHANGED <<mcpVars, pvVars, cliVars, whVars, sanVars, valVars, synVars, tsVars, fwrVars>>

\* verifyWebhookSignature(payload, signature, secret): the catch returns false
VerifySignatureCall ==
    /\ Calling("verifyWebhookSignature")
    /\ fnResult' = Some(Returns(verifyWebhookSignature(Get(fnCall).args.payload,
                                                       Get(fnCall).args.signature,
                                                       Get(fnCall).args.secret)))
    /\ UNCHANGED fnCall
    /\ UNCHANGED <<mcpVars, pvVars, cliVars, whVars, sanVars, valVars, synVars, tsVars, fwrVars>>

\* extractSiteName(prompt): the name, or null
ExtractSiteNameCall ==
    /\ Calling("extractSiteName")
    /\ fnResult' = Some(Returns(extractSiteName(Get(fnCall).args)))
    /\ UNCHANGED fnCall
    /\ UNCHANGED <<mcpVars, pvVars, cliVars, whVars, sanVars, valVars, synVars, tsVars, fwrVars>>

\* createLLMRequest(userPrompt): the request, or the Error thrown
CreateLLMRequestCall ==
    /\ Calling("createLLMRequest")
    /\ fnResult' = Some(createLLMRequest(Get(fnCall).args))
    /\ UNCHANGED fnCall
    /\ UNCHANGED <<mcpVars, pvVars, cliVars, whVars, sanVars, valVars, synVars, tsVars, fwrVars>>

NextFunctions ==
    \/ ContentLimitsCall
    \/ VerifySignatureCall
    \/ ExtractSiteNameCall
    \/ CreateLLMRequestCall

SpecFunctions == InitFunctions /\ [][NextFunctions]_vars

\* the number of words of a text: its maximal runs of characters that are not
\* white space
Words(s) == Cardinality({ i \in 1..Len(s) : ~IsSpace(At(s, i)) /\ (i = 1 \/ IsSpace(At(s, i - 1))) })

FeatureWarning(i, length) ==
    "Feature " \o ToString(i) \o " description is " \o ToString(length) \o
    " chars (recommended: <=120 chars)"

(* C21: validateContentLimits is advisory and total: it emits a hero-title   *)
(* warning iff the home hero title has more than 8 words, and for each       *)
(* feature index i a warning iff that feature's description is longer than   *)
(* 120 characters, naming position i+1 and the length; it returns valid=true *)
(* iff the warnings list is empty, and never throws.                         *)
C21_ContentLimits ==
    Called("validateContentLimits") =>
        LET config   == Get(fnCall).args
            feats    == config.pages.home.features
            r        == Get(fnResult)
            warnings == { r.value.warnings[k] : k \in 1..Len(r.value.warnings) }
            wordy    == Words(config.pages.home.hero.title) > 8
            long     == { i \in 1..Len(feats) : Len(feats[i].description) > 120 }
        IN  /\ ~r.threw
            /\ (\E w \in warnings : StartsWith(w, "Hero title has ")) <=> wordy
            /\ \A i \in 1..Len(feats) :
                   (\E w \in warnings : StartsWith(w, "Feature " \o ToString(i) \o " ")) <=>
                   i \in long
            /\ \A i \in long : FeatureWarning(i, Len(feats[i].description)) \in warnings
            /\ Len(r.value.warnings) = Cardinality(long) + (IF wordy THEN 1 ELSE 0)
            /\ r.value.valid <=> r.value.warnings = << >>

(* C22: verifyWebhookSignature(payload, signature, secret) returns true if   *)
(* and only if secret is non-empty and signature is exactly "sha256="        *)
(* followed by the hex HMAC-SHA-256 digest of the payload keyed by secret;   *)
(* for every other signature and for an empty secret it returns false, and   *)
(* it never throws.                                                          *)
C22_SignatureExact ==
    Called("verifyWebhookSignature") =>
        LET a == Get(fnCall).args
            r == Get(fnResult)
        IN  /\ ~r.threw
            /\ r.value <=> ( /\ a.secret # ""
                             /\ a.signature = "sha256=" \o HmacSha256Hex(a.secret, a.payload) )

\* the words a name is cleaned of
Articles == {"the", "a", "an"}
SuffixWords == {"company", "corp", "inc", "llc", "co"}

(* C27: every name returned by extractSiteName has its internal whitespace   *)
(* runs collapsed to single spaces, does not begin with an article           *)
(* (the/a/an), does not end with a business-suffix word (company, corp, inc, *)
(* llc, co), and is longer than 2 and shorter than 50 characters; the prompt *)
(* "Create a portfolio site for Design Co" yields the name "Design".         *)
C27_NameNormalized ==
    (Called("extractSiteName") /\ IsSome(Get(fnResult).value)) =>
        LET name == Get(Get(fnResult).value)
            l    == ToLowerCase(name)
        IN  /\ \A i \in 1..Len(name) :
                   IsSpace(At(name, i)) =>
                       At(name, i) = " " /\ i > 1 /\ i < Len(name) /\ ~IsSpace(At(name, i + 1))
            /\ \A w \in Articles : ~StartsWith(l, w \o " ")
            /\ \A w \in SuffixWords : ~EndsWith(l, " " \o w)
            /\ Len(name) > 2
            /\ Len(name) < 50
            /\ Get(fnCall).args = "Create a portfolio site for Design Co" => name = "Design"

\* one of the patterns sanitizeLLMContent removes occurs in the text
Dangerous(text) == \E k \in 1..Len(llmPatterns) : Matches(text, llmPatterns[k])

(* C30: createLLMRequest never returns a request with an empty prompt: for   *)
(* every user prompt it either throws (blank prompt: "User prompt is         *)
(* required"; more than 2000 characters: "too long") or returns a request    *)
(* whose prompt is non-empty after sanitization, and for a prompt containing *)
(* no dangerous pattern and no leading or trailing whitespace the returned   *)
(* prompt equals the input unchanged (never truncated).                      *)
C30_NeverEmptyPrompt ==
    Called("createLLMRequest") =>
        LET userPrompt == Get(fnCall).args
            r          == Get(fnResult)
            blank      == \A i \in 1..Len(userPrompt) : IsSpace(At(userPrompt, i))
            bare       == userPrompt = "" \/
                          (~IsSpace(At(userPrompt, 1)) /\ ~IsSpace(At(userPrompt, Len(userPrompt))))
        IN  /\ blank => r = Throws("User prompt is required")
            /\ (~blank /\ Len(userPrompt) > 2000) => r.threw /\ Includes(r.value, "too long")
            /\ (~blank /\ Len(userPrompt) <= 2000) => ~r.threw /\ r.value.prompt # ""
            /\ (~r.threw /\ ~Dangerous(userPrompt) /\ bare) => r.value.prompt = userPrompt

-----------------------------------------------------------------------------
(* Repeated and interleaved calls of the local generateSiteConfig            *)
(* (src/lib/mcp-client.ts, lines 255-330): a call runs to                    *)
(* `await validateArtifact(siteConfig)`, where other calls may run, and      *)
(* returns afterwards                                                        *)

\* the most calls in one behaviour
MaxCalls == 2

SynPrompts ==
    { "   ",
      "Create a portfolio site for Creative Studio",
      "a site called 'The Acme Co.' about us, contact",
      "legal consulting firm" }

SynMaxFeatures == { None, Some(2) }

\* a call: its arguments, where it stands, the siteConfig it built, what it returned
SynCallRecord(prompt, maxFeatures, pc, siteConfig, result) ==
    [ prompt |-> prompt, maxFeatures |-> maxFeatures, pc |-> pc,
      siteConfig |-> siteConfig, result |-> result ]

\* a result without metadata: the gate's and the failed validation's
Plain(r) == [success |-> r.success, error |-> r.error, data |-> r.data, timestamp |-> None]

\* a return statement that writes the time into the data
ReturnedStampedData(siteConfig, now) ==
    [ success |-> TRUE, error |-> "",
      data |-> Some(WithDescription(siteConfig, siteConfig.description \o " @" \o ToString(now))),
      timestamp |-> Some(now) ]

\* lines 316-323: success, the data, metadata.timestamp = new Date().toISOString()
ReturnedAt(siteConfig, now) ==
    [ success |-> TRUE, error |-> "", data |-> Some(siteConfig), timestamp |-> Some(now) ]

InitSynthesis ==
    /\ synClock = 0 /\ synCalls = << >>
    /\ McpIdle /\ PvIdle /\ CliIdle /\ WhIdle /\ SanIdle /\ ValIdle /\ FnIdle /\ TsIdle /\ FwrIdle

\* generateSiteConfig(prompt, options) up to its await: the gate, the
\* configuration built from the prompt
SynCall(prompt, maxFeatures) ==
    /\ Len(synCalls) < MaxCalls
    /\ synCalls' = Append(synCalls,
           IF IsSome(PromptGate(prompt))
           THEN SynCallRecord(prompt, maxFeatures, "done", None,
                              Some(Plain(Get(PromptGate(prompt)))))
           ELSE SynCallRecord(prompt, maxFeatures, "validating",
                              Some(SynthesizedConfig(prompt, maxFeatures)), None))
    /\ synClock' = synClock + 1
    /\ UNCHANGED <<mcpVars, pvVars, cliVars, whVars, sanVars, valVars, fnVars, tsVars, fwrVars>>

\* call i resumes after the await and returns
SynReturn(i) ==
    /\ i \in 1..Len(synCalls)
    /\ synCalls[i].pc = "validating"
    /\ \E validation \in {validateArtifact(Get(synCalls[i].siteConfig))} :
         synCalls' = [synCalls EXCEPT ![i] =
             [@ EXCEPT !.pc = "done",
                       !.result = Some(
                           IF ~validation.valid
                           THEN Plain(Failure("Generated config failed validation: " \o
                                              JoinErrors(validation.errors)))
                           ELSE ReturnedAt(Get(synCalls[i].siteConfig), synClock))]]
    /\ synClock' = synClock + 1
    /\ UNCHANGED <<mcpVars, pvVars, cliVars, whVars, sanVars, valVars, fnVars, tsVars, fwrVars>>

NextSynthesis ==
    \/ \E p \in SynPrompts, m \in SynMaxFeatures : SynCall(p, m)
    \/ \E i \in 1..MaxCalls : SynReturn(i)

SpecSynthesis == InitSynthesis /\ [][NextSynthesis]_vars

SameArguments(a, b) == a.prompt = b.prompt /\ a.maxFeatures = b.maxFeatures

-----------------------------------------------------------------------------
(* verifyTurnstile (src/lib/turnstile.ts): requests run concurrently, each   *)
(* up to its next await on EDGE_STORE or on fetch; all steps fall within the *)
(* 15 minutes for which a replay key lives                                   *)

\* the most requests in one behaviour
MaxTurnstileRequests == 3

\* the tokens a request may carry: none, one the service issued, one it did not
GenuineToken == "token-issued"
TurnstileTokens == { "", GenuineToken, "token-forged" }

TsRequest(token, pc, current, result) ==
    [token |-> token, pc |-> pc, current |-> current, result |-> result]

TsOk == [ok |-> TRUE, code |-> 200, err |-> ""]
TsError(code, err) == [ok |-> FALSE, code |-> code, err |-> err]

InitTurnstile ==
    /\ tsStore = [seen |-> {}, fails |-> 0]
    /\ tsRedeemed = {}
    /\ tsReqs = << >>
    /\ McpIdle /\ PvIdle /\ CliIdle /\ WhIdle /\ SanIdle /\ ValIdle /\ FnIdle /\ SynIdle /\ FwrIdle

OtherGroupsUnchanged ==
    UNCHANGED <<mcpVars, pvVars, cliVars, whVars, sanVars, valVars, fnVars, synVars, fwrVars>>

\* a request arrives: if (!token) return 400, else the hash and the get are awaited
TsArrive(token) ==
    /\ Len(tsReqs) < MaxTurnstileRequests
    /\ tsReqs' = Append(tsReqs,
           IF token = ""
           THEN TsRequest(token, "done", 0, Some(TsError(400, "missing token")))
           ELSE TsRequest(token, "get", 0, None))
    /\ UNCHANGED <<tsStore, tsRedeemed>>
    /\ OtherGroupsUnchanged

\* EDGE_STORE.get(replayKey(tokenHash)) answers: if (seen) return 429, else the
\* fetch of siteverify is sent
TsGetSeen(i) ==
    /\ i \in 1..Len(tsReqs)
    /\ tsReqs[i].pc = "get"
    /\ tsReqs' = [tsReqs EXCEPT ![i] =
           IF tsReqs[i].token \in tsStore.seen
           THEN [@ EXCEPT !.pc = "done", !.result = Some(TsError(429, "replayed token"))]
           ELSE [@ EXCEPT !.pc = "fetch"]]
    /\ UNCHANGED <<tsStore, tsRedeemed>>
    /\ OtherGroupsUnchanged

\* siteverify answers: success is false for a token the service did not issue;
\* for one it issued and has answered for before, the service may say either
TsSiteverify(i, success) ==
    /\ i \in 1..Len(tsReqs)
    /\ tsReqs[i].pc = "fetch"
    /\ tsReqs[i].token # GenuineToken => ~success
    /\ (tsReqs[i].token = GenuineToken /\ tsReqs[i].token \notin tsRedeemed) => success
    /\ tsRedeemed' = tsRedeemed \cup {tsReqs[i].token}
    /\ tsReqs' = [tsReqs EXCEPT ![i].pc = IF success THEN "put" ELSE "failGet"]
    /\ UNCHANGED tsStore
    /\ OtherGroupsUnchanged

\* body.success is false: EDGE_STORE.get(failKey) answers
TsGetFails(i) ==
    /\ i \in 1..Len(tsReqs)
    /\ tsReqs[i].pc = "failGet"
    /\ tsReqs' = [tsReqs EXCEPT ![i] = [@ EXCEPT !.pc = "failPut", !.current = tsStore.fails]]
    /\ UNCHANGED <<tsStore, tsRedeemed>>
    /\ OtherGroupsUnchanged

\* EDGE_STORE.put(failKey, current + 1) and return 403
TsPutFails(i) ==
    /\ i \in 1..Len(tsReqs)
    /\ tsReqs[i].pc = "failPut"
    /\ tsStore' = [tsStore EXCEPT !.fails = tsReqs[i].current + 1]
    /\ tsReqs' = [tsReqs EXCEPT ![i] =
           [@ EXCEPT !.pc = "done", !.result = Some(TsError(403, "turnstile failed"))]]
    /\ UNCHANGED tsRedeemed
    /\ OtherGroupsUnchanged

\* EDGE_STORE.put(replayKey(tokenHash), "1") and return { ok: true }
TsPutSeen(i) ==
    /\ i \in 1..Len(tsReqs)
    /\ tsReqs[i].pc = "put"
    /\ tsStore' = [tsStore EXCEPT !.seen = @ \cup {tsReqs[i].token}]
    /\ tsReqs' = [tsReqs EXCEPT ![i] = [@ EXCEPT !.pc = "done", !.result = Some(TsOk)]]
    /\ UNCHANGED tsRedeemed
    /\ OtherGroupsUnchanged

NextTurnstile ==
    \/ \E t \in TurnstileTokens : TsArrive(t)
    \/ \E i \in 1..MaxTurnstileRequests : TsGetSeen(i)
    \/ \E i \in 1..MaxTurnstileRequests, success \in BOOLEAN : TsSiteverify(i, success)
    \/ \E i \in 1..MaxTurnstileRequests : TsGetFails(i)
    \/ \E i \in 1..MaxTurnstileRequests : TsPutFails(i)
    \/ \E i \in 1..MaxTurnstileRequests : TsPutSeen(i)

SpecTurnstile == InitTurnstile /\ [][NextTurnstile]_vars

TsAccepted(i) == tsReqs[i].pc = "done" /\ Get(tsReqs[i].result).ok

(* C25: replay prevention: within the replay window a given Turnstile token  *)
(* is accepted (verifyTurnstile returns ok=true) at most once, for every     *)
(* interleaving of the requests carrying it, two concurrent requests         *)
(* included; every later or concurrent use of the same token is rejected     *)
(* with code 429 "replayed token".                                           *)
C25_ReplayPrevented ==
    \A i, j \in 1..Len(tsReqs) :
        (i # j /\ tsReqs[i].token = tsReqs[j].token /\ TsAccepted(i) /\ tsReqs[j].pc = "done")
        => Get(tsReqs[j].result) = TsError(429, "replayed token")

-----------------------------------------------------------------------------
(* The local generation followed by the three checks (under SpecMCP)         *)

\* the end-to-end scenario: the prompt, with default options, generated locally
ScenarioPrompt == "Create a portfolio site for Creative Studio"
ScenarioDone ==
    LocalGenerated /\ mcpPrompt = ScenarioPrompt /\ ~IsSome(Get(mcpCall).maxFeatures)

\* what the scenario yields apart from the name
ScenarioRest ==
    /\ Get(mcpResult).success
    /\ ReturnedFeatures = SubSeq(DesignFeatures, 1, 3)
    /\ validateArtifact(Get(Get(mcpResult).data)).valid
    /\ validateContentLimits(Get(Get(mcpResult).data)).valid
    /\ validateSecurityConstraints(Get(Get(mcpResult).data)).valid

(* C26: for the prompt "Create a portfolio site for Creative Studio" with    *)
(* default options, local generation extracts the name "Creative Studio",    *)
(* selects the design/studio bundle, produces exactly 3 features equal to    *)
(* the first three entries of the design bundle in bundle order, and the     *)
(* configuration passes the schema check, the content-quality check and the  *)
(* security check, so the final result is valid.                             *)
C26_EndToEnd ==
    ScenarioDone =>
        /\ ScenarioRest
        /\ Get(Get(mcpResult).data).name = "Creative Studio"

-----------------------------------------------------------------------------
(* fetchWithRetry (src/lib/mcp-client.ts, lines 994-1034): one call, from    *)
(* await to await                                                            *)

\* the largest retries option of a call
MaxFetchRetries == 3

\* opts.retries and opts.backoffMs when the caller leaves them out
FetchDefaultRetries == 2
FetchDefaultBackoffMs == 400

\* the backoffMs generateSiteConfig passes
CallerBackoffMs == 500

FetchOpts ==
    { [retries |-> r, backoffMs |-> b] :
        r \in {None} \cup { Some(n) : n \in 0..MaxFetchRetries },
        b \in {None, Some(CallerBackoffMs)} }

\* const { retries = 2, backoffMs = 400 } = opts
FetchRetries ==
    IF IsSome(Get(fwrOpts).retries) THEN Get(Get(fwrOpts).retries) ELSE FetchDefaultRetries
FetchBackoffMs ==
    IF IsSome(Get(fwrOpts).backoffMs) THEN Get(Get(fwrOpts).backoffMs)
    ELSE FetchDefaultBackoffMs

\* how a fetchImpl call ends: a response, or an Error thrown
FetchResponse(status) == [threw |-> FALSE, status |-> status, error |-> ""]
FetchThrew(error) == [threw |-> TRUE, status |-> 0, error |-> error]

FetchStatuses == {200, 404, 429, 500, 599}
NetworkError == "TypeError: fetch failed"
AbortError == "AbortError: This operation was aborted"

\* a mistaken test: every status from 400 on
RetriableFrom400(status) == status >= 400

\* res.status === 429 || (res.status >= 500 && res.status < 600)
Retriable(status) == status = 429 \/ (status >= 500 /\ status < 600)

\* setTimeout(() => controller.abort(), timeoutMs) of the attempt begun, and
\* clearTimeout(timeout) of the attempt ended
Armed(timers) == Append(timers, "armed")
Cleared(timers) == [timers EXCEPT ![Len(timers)] = "cleared"]

InitFetch ==
    /\ fwrOpts \in { Some(o) : o \in FetchOpts }
    /\ fwrPc = "idle"
    /\ fwrAttempt = 0
    /\ fwrTimers = << >>
    /\ fwrLastErr = None
    /\ fwrOutcomes = << >>
    /\ fwrWaited = << >>
    /\ fwrResult = None
    /\ McpIdle /\ PvIdle /\ CliIdle /\ WhIdle /\ SanIdle /\ ValIdle /\ FnIdle /\ SynIdle /\ TsIdle

FetchOthersUnchanged ==
    UNCHANGED <<mcpVars, pvVars, cliVars, whVars, sanVars, valVars, fnVars, synVars, tsVars>>

\* the call, to the first `await fetchImpl(...)`: 0 <= retries, so the loop is
\* entered and the timer of attempt 0 armed
FwrStart ==
    /\ fwrPc = "idle"
    /\ fwrPc' = "fetching"
    /\ fwrTimers' = Armed(fwrTimers)
    /\ UNCHANGED <<fwrOpts, fwrAttempt, fwrLastErr, fwrOutcomes, fwrWaited, fwrResult>>
    /\ FetchOthersUnchanged

\* the timer of the attempt goes off: controller.abort()
FwrTimerFires ==
    /\ fwrPc \in {"fetching", "backoff"}
    /\ fwrTimers[Len(fwrTimers)] = "armed"
    /\ fwrTimers' = [fwrTimers EXCEPT ![Len(fwrTimers)] = "fired"]
    /\ UNCHANGED <<fwrOpts, fwrPc, fwrAttempt, fwrLastErr, fwrOutcomes, fwrWaited, fwrResult>>
    /\ FetchOthersUnchanged

\* fetchImpl resolves with a response: on 429 or 5xx with attempts left the
\* backoff is awaited inside the try block; else the response is returned and
\* the finally block clears the timer
FwrResponse(status) ==
    /\ fwrPc = "fetching"
    /\ fwrTimers[Len(fwrTimers)] = "armed"
    /\ fwrOutcomes' = Append(fwrOutcomes, FetchResponse(status))
    /\ IF Retriable(status) /\ fwrAttempt < FetchRetries
       THEN /\ fwrPc' = "backoff"
            /\ UNCHANGED <<fwrTimers, fwrResult>>
       ELSE /\ fwrPc' = "returned"
            /\ fwrResult' = Some(Returns(FetchResponse(status)))
            /\ fwrTimers' = Cleared(fwrTimers)
    /\ UNCHANGED <<fwrOpts, fwrAttempt, fwrLastErr, fwrWaited>>
    /\ FetchOthersUnchanged

\* fetchImpl rejects, after an abort with the AbortError: lastErr = err; with
\* attempts left the backoff is awaited inside the catch block; else the
\* finally block clears the timer, attempt++ ends the loop and lastErr is
\* thrown
FwrThrow(error) ==
    /\ fwrPc = "fetching"
    /\ (error = AbortError) <=> (fwrTimers[Len(fwrTimers)] = "fired")
    /\ fwrOutcomes' = Append(fwrOutcomes, FetchThrew(error))
    /\ fwrLastErr' = Some(error)
    /\ IF fwrAttempt < FetchRetries
       THEN /\ fwrPc' = "backoff"
            /\ UNCHANGED <<fwrTimers, fwrAttempt, fwrResult>>
       ELSE /\ fwrPc' = "thrown"
            /\ fwrTimers' = Cleared(fwrTimers)
            /\ fwrAttempt' = fwrAttempt + 1
            /\ fwrResult' = Some(Throws(error))
    /\ UNCHANGED <<fwrOpts, fwrWaited>>
    /\ FetchOthersUnchanged

\* the backoff of backoffMs * (attempt + 1) is over: the finally block clears
\* the timer, attempt++, attempt <= retries, the next timer is armed and
\* fetchImpl called
FwrBackoffElapsed ==
    /\ fwrPc = "backoff"
    /\ fwrWaited' = Append(fwrWaited, FetchBackoffMs * (fwrAttempt + 1))
    /\ fwrTimers' = Armed(Cleared(fwrTimers))
    /\ fwrAttempt' = fwrAttempt + 1
    /\ fwrPc' = "fetching"
    /\ UNCHANGED <<fwrOpts, fwrLastErr, fwrOutcomes, fwrResult>>
    /\ FetchOthersUnchanged

NextFetch ==
    \/ FwrStart
    \/ FwrTimerFires
    \/ \E status \in FetchStatuses : FwrResponse(status)
    \/ \E error \in {NetworkError, AbortError} : FwrThrow(error)
    \/ FwrBackoffElapsed

SpecFetch == InitFetch /\ [][NextFetch]_vars

\* an attempt that ended in a thrown error or a response with status 429 or 5xx
Transient(outcome) == outcome.threw \/ outcome.status \in {429} \cup (500..599)

(* C28: fetchWithRetry makes at most retries+1 attempts (default retries=2); *)
(* attempt k+1 is started only after attempt k ended in a thrown error or a  *)
(* response with status 429 or 5xx, and only after waiting the backoff       *)
(* delay; a response with any other status is returned immediately; if the   *)
(* last attempt returns 429/5xx that response is returned, and if every      *)
(* attempt threw, the last error is thrown; the per-attempt timeout timer is *)
(* cleared after every attempt.                                              *)
C28_BoundedRetry ==
    fwrPc # "idle" =>
        LET begun == Len(fwrTimers)
            ended == Len(fwrOutcomes)
            over  == fwrPc \in {"returned", "thrown"}
        IN  /\ begun <= FetchRetries + 1
            /\ IsSome(Get(fwrOpts).retries) \/ begun <= 3
            /\ \A k \in 1..(begun - 1) :
                   /\ k <= ended /\ Transient(fwrOutcomes[k])
                   /\ k <= Len(fwrWaited) /\ fwrWaited[k] = FetchBackoffMs * k
            /\ \A k \in 1..ended :
                   (~Transient(fwrOutcomes[k]) \/
                    (k = FetchRetries + 1 /\ ~fwrOutcomes[k].threw)) =>
                       /\ k = ended /\ begun = k
                       /\ fwrPc = "returned"
                       /\ fwrResult = Some(Returns(fwrOutcomes[k]))
            /\ (ended = FetchRetries + 1 /\ \A k \in 1..ended : fwrOutcomes[k].threw) =>
                   /\ fwrPc = "thrown"
                   /\ fwrResult = Some(Throws(fwrOutcomes[ended].error))
            /\ over <=> IsSome(fwrResult)
            /\ \A k \in 1..begun :
                   (k < begun \/ over) <=> fwrTimers[k] = "cleared"

\* the last of three attempts answers 500 after a thrown error and a 429:
\* that response is returned, two backoffs waited, no timer armed
C28_Witness ==
    /\ fwrPc = "returned"
    /\ Len(fwrOutcomes) = 3
    /\ fwrOutcomes[1].threw
    /\ fwrOutcomes[2] = FetchResponse(429)
    /\ fwrResult = Some(Returns(FetchResponse(500)))
    /\ Len(fwrWaited) = 2
    /\ \A k \in 1..3 : fwrTimers[k] = "cleared"

-----------------------------------------------------------------------------
(* The business category behind each part of a locally generated             *)
(* configuration (under SpecMCP), read off the texts the four functions emit. *)
(* "studio", "design" and "portfolio" count as the one category "design", as *)
(* in the first branch of generateFeatures; "none" stands for a fallback     *)
(* text, which shows no category.                                            *)

\* the category of each entry of businessTypes, in order
DescriptionCategories ==
    << "business", "design", "consulting", "design", "agency", "restaurant", "legal",
       "medical", "real estate", "fitness", "education", "nonprofit" >>

DescriptionCategory(description) ==
    IF \E t \in 1..Len(businessTypes) : businessTypes[t].description = description
    THEN DescriptionCategories[CHOOSE t \in 1..Len(businessTypes) :
                                   businessTypes[t].description = description]
    ELSE "none"

\* the templates of extractHeroTitle; "Welcome to <name>" is also the fallback
HeroTitleCategory(title) ==
    IF EndsWith(title, " Portfolio") THEN "design"
    ELSE IF StartsWith(title, "Expert Consulting ") THEN "consulting"
    ELSE IF StartsWith(title, "Creative Solutions by ") \/ title = "Creative Design Solutions"
    THEN "design"
    ELSE IF EndsWith(title, " Digital Agency") \/ title = "Digital Agency Services"
    THEN "agency"
    ELSE IF title = "Exceptional Dining Experience" THEN "restaurant"
    ELSE "none"

\* the texts of extractHeroSubtitle
HeroSubtitleCategory(subtitle) ==
    IF StartsWith(subtitle, "We transform your vision") THEN "design"
    ELSE IF StartsWith(subtitle, "Strategic consulting services") THEN "consulting"
    ELSE IF StartsWith(subtitle, "Showcasing innovative projects") THEN "design"
    ELSE IF StartsWith(subtitle, "Professional digital services") THEN "agency"
    ELSE IF StartsWith(subtitle, "Crafting memorable dining") THEN "restaurant"
    ELSE IF StartsWith(subtitle, "Providing expert legal counsel") THEN "legal"
    ELSE IF StartsWith(subtitle, "Comprehensive healthcare services") THEN "medical"
    ELSE "none"

\* the feature set the features are the beginning of
FeaturesCategory(features) ==
    IF features = << >> THEN "none"
    ELSE IF features[1] = DesignFeatures[1] THEN "design"
    ELSE IF features[1] = ConsultingFeatures[1] THEN "consulting"
    ELSE IF features[1] = AgencyFeatures[1] THEN "agency"
    ELSE IF features[1] = RestaurantFeatures[1] THEN "restaurant"
    ELSE IF features[1] = LegalFeatures[1] THEN "legal"
    ELSE "none"

\* the categories the four parts of the returned configuration show
ShownCategories ==
    LET config == Get(Get(mcpResult).data)
    IN  { DescriptionCategory(config.description),
          HeroTitleCategory(config.pages.home.hero.title),
          HeroSubtitleCategory(config.pages.home.hero.subtitle),
          FeaturesCategory(config.pages.home.features) } \ {"none"}

(* C29: within one locally generated configuration, description, hero title, *)
(* hero subtitle and feature bundle are all derived from the same business   *)
(* category, for every prompt, also one with keywords of several categories. *)
C29_OneCategory ==
    (LocalGenerated /\ Get(mcpResult).success) => Cardinality(ShownCategories) <= 1

====
